---- MODULE Spec2Model ----
(***************************************************************************)
(* A model of review_eval: the PR scoring engine (scoring_engine.py,       *)
(* models.py), the multi-model consensus evaluator                         *)
(* (multi_model_evaluator.py), the four metric collectors (collectors/),   *)
(* the retry decorator of the embedding client and its _embed_batch        *)
(* (semantic/embeddings/client.py), ScoringEngine.from_config_file, the    *)
(* score command (__main__.py) and the health check (health_check.py).     *)
(*                                                                         *)
(* Numbers.  In the scoring engine Python floats are modelled in fixed     *)
(* point: a weight w is the integer 1000*w, a score or penalty or          *)
(* threshold is a whole number of points, and a weighted score             *)
(* (score * weight) is therefore a number of thousandths of a point.  The  *)
(* collectors keep their scores exact: a quotient is a Ratio and a value   *)
(* of math.tanh or math.exp is a Double, the bits of the IEEE-754 result.  *)
(***************************************************************************)
EXTENDS Integers, Sequences, FiniteSets, TLC

VARIABLES
    config,            \* the ScoringConfig handed to ScoringEngine.__init__
    collectors,        \* the list of collectors handed to __init__
    engine,            \* "none" | "constructed" | "ValueError" ("unused": no engine)
    self_config,       \* self.config of the constructed engine
    pc,                \* calculate_score: "idle" | "gather" | "done" | "raised" ("unused": no engine)
    pending,           \* indexes of the collect() tasks still running
    results,           \* what asyncio.gather has received, by collector index
    breakdown,         \* local of calculate_score
    weighted_score,    \* local of calculate_score (thousandths of a point)
    penalties,         \* local of calculate_score (points)
    prscore,           \* the PRScore returned
    models,            \* self.models of the MultiModelEvaluator (the roster)
    test_case,         \* the GoldenTestCase handed to evaluate_async
    epc,               \* evaluate_async: "idle" | "gather" | "done" ("unused": no evaluator)
    epending,          \* indexes of the _evaluate_single_model tasks still running
    model_results,     \* what asyncio.gather has received, by roster index
    gateway,           \* what each task's `await self._query_model(...)` gave, by roster index
    mm_result,         \* the MultiModelResult returned
    coll,              \* a built-in collector as constructed ("<None>": no collector)
    artifact,          \* what the collector finds on disk and from its subprocesses
    cpc,               \* collect(): "idle" | "done" ("unused": no collector)
    outcome,           \* how collect() ended: a ScoringResult returned, or an exception
    func,              \* the decorated function: "func" (any function) | "_embed_batch"
    requests,          \* _embed_batch: how each client.post ended, in order
    max_retries,       \* with_retry(max_retries, base_delay): the decorator's arguments
    base_delay,        \* (milliseconds)
    rpc,               \* wrapper: "idle" | "calling" | "sleeping" | "returned" | "raised"
                       \* ("unused": no wrapper)
    attempt,           \* the loop variable of the wrapper
    last_exception,    \* local of the wrapper
    call_count,        \* how many times the wrapped function has been invoked
    history,           \* how each finished invocation ended, in order
    delays,            \* the arguments of the asyncio.sleep calls, in order (milliseconds)
    rresult,           \* what the wrapper returned or raised
    yaml_doc,          \* the YAML file at config_path ("<None>": no call)
    fpc,               \* from_config_file: "idle" | "done" ("unused": no call)
    from_file,         \* how from_config_file ended: the engine's config, or an exception
    args,              \* score_command: the parsed command line ("<None>": no run)
    inputs,            \* what the command finds at the paths it is given
    cmd,               \* score_command: "start" | "scoring" | "report" | "exited"
                       \* ("unused": no run)
    cmd_engine,        \* its locals `collectors` and `engine`
    cmd_result,        \* its local `result`, the PRScore
    exit_code,         \* the exit code of the process (-1: still running)
    cmd_error,         \* the exception that ended the run ("": none)
    henv,              \* check_health: environment variables, what the two APIs
                       \* answer, the importable packages ("<None>": no check)
    hpc,               \* check_health: "idle" | "done" ("unused": no check)
    health             \* the HealthCheckResult returned

scoreVars == <<config, collectors, engine, self_config, pc, pending, results,
               breakdown, weighted_score, penalties, prscore>>
evalVars == <<models, test_case, epc, epending, model_results, gateway, mm_result>>
collectVars == <<coll, artifact, cpc, outcome>>
retryVars == <<func, requests, max_retries, base_delay, rpc, attempt, last_exception,
               call_count, history, delays, rresult>>
configVars == <<yaml_doc, fpc, from_file>>
commandVars == <<args, inputs, cmd, cmd_engine, cmd_result, exit_code, cmd_error>>
healthVars == <<henv, hpc, health>>
vars == <<scoreVars, evalVars, collectVars, retryVars, configVars, commandVars,
          healthVars>>

(***************************************************************************)
(* Generic helpers                                                         *)
(***************************************************************************)
\* Python's None
None == "<None>"

\* dict.get(key, default)
DictGet(d, k, default) == IF k \in DOMAIN d THEN d[k] ELSE default

Max(a, b) == IF b > a THEN b ELSE a
Min(a, b) == IF b < a THEN b ELSE a
Abs(x) == IF x < 0 THEN -x ELSE x

\* the empty dict
EmptyDict == <<>>

(***************************************************************************)
(* models.py: MetricCategory, ScoringConfig                                *)
(***************************************************************************)
TESTS == "tests"
COVERAGE == "coverage"
STATIC_ANALYSIS == "static_analysis"
AI_REVIEW == "ai_review"
MetricCategory == {TESTS, COVERAGE, STATIC_ANALYSIS, AI_REVIEW}

\* 1.0 and 0.01 of validate_weights, in thousandths
One == 1000
WeightTolerance == 10

RECURSIVE SumValues(_)
\* sum(d.values())
SumValues(d) ==
    IF DOMAIN d = {} THEN 0
    ELSE LET k == CHOOSE x \in DOMAIN d : TRUE
         IN d[k] + SumValues([x \in DOMAIN d \ {k} |-> d[x]])

\* ScoringConfig.validate_weights, with <= in place of <
validate_weights_inclusive(cfg) ==
    Abs(SumValues(cfg.weights) - One) <= WeightTolerance

\* ScoringConfig.validate_weights
validate_weights(cfg) ==
    Abs(SumValues(cfg.weights) - One) < WeightTolerance

(***************************************************************************)
(* Inputs of the scoring engine                                            *)
(***************************************************************************)
\* largest count a collector reports in details (security_issues, total)
MaxCount == 2

FullWeights(t, c, s, a) ==
    (TESTS :> t) @@ (COVERAGE :> c) @@ (STATIC_ANALYSIS :> s) @@ (AI_REVIEW :> a)

\* the ScoringConfig default weights (models.py:182-189)
DefaultWeights == FullWeights(300, 200, 200, 300)

\* weights: sums of 1.0, 1.10, 1.01, 0.99, 1.005 and 0.995, and a one-category map
WeightMaps ==
    { DefaultWeights,
      FullWeights(250, 250, 250, 250),
      (TESTS :> 1000),
      FullWeights(500, 300, 300, 0),
      FullWeights(310, 200, 200, 300),
      FullWeights(290, 200, 200, 300),
      FullWeights(305, 200, 200, 300),
      FullWeights(295, 200, 200, 300) }

\* the ScoringConfig default penalties (models.py:190-195)
DefaultPenalties ==
    ("security_vulnerability" :> 100) @@ ("critical_test_failure" :> 50)

PenaltyMaps ==
    { DefaultPenalties,
      ("security_vulnerability" :> 200),
      ("critical_test_failure" :> 50) }

\* the ScoringConfig default threshold (models.py:181)
DefaultThreshold == 80

ScoringConfigs ==
    [threshold : {DefaultThreshold}, weights : WeightMaps,
     critical_penalties : PenaltyMaps]

\* the weight attribute a collector is constructed with
\* (collectors/*.py defaults: 0.30 / 0.20 / 0.20 / 0.30)
CollectorWeight(category) == DefaultWeights[category]

\* a collector whose collect() always returns a ScoringResult
Collector(category) ==
    [category |-> category, weight |-> CollectorWeight(category), raises |-> FALSE]

\* a MetricCollector subclass whose collect() may raise, which the contract
\* of the abstract method allows ("Raises: Exception: If metric collection
\* fails")
RaisingCollector(category) ==
    [category |-> category, weight |-> CollectorWeight(category), raises |-> TRUE]

RosterOf(cats) == [i \in 1..Len(cats) |-> Collector(cats[i])]

\* collector lists: none, one, all four, a subset, a category given twice,
\* and a list with a collector that may raise
Rosters ==
    { RosterOf(<<>>),
      RosterOf(<<TESTS>>),
      RosterOf(<<TESTS, COVERAGE, STATIC_ANALYSIS, AI_REVIEW>>),
      RosterOf(<<AI_REVIEW, TESTS>>),
      RosterOf(<<AI_REVIEW, COVERAGE, AI_REVIEW>>),
      <<Collector(TESTS), RaisingCollector(COVERAGE)>> }

\* the details a collector of the category may report
DetailsOf(category) ==
    CASE category = TESTS ->
           {EmptyDict} \cup
           { ("total" :> t) @@ ("failed" :> f) : <<t, f>> \in
                 {x \in (0..MaxCount) \X (0..MaxCount) : x[2] <= x[1]} }
      [] category = AI_REVIEW ->
           {EmptyDict} \cup { ("security_issues" :> n) : n \in 0..MaxCount }
      [] OTHER -> {EmptyDict}

\* the normalized scores a collector of the category may report (150: a
\* collector that does not keep to 0-100, as in test_score_clamped_to_range)
ScoresOf(category) ==
    CASE category = TESTS -> {0, 90}
      [] category = COVERAGE -> {80, 150}
      [] category = STATIC_ANALYSIS -> {70}
      [] category = AI_REVIEW -> {50, 100}

ErrorsOf(category) ==
    CASE category = AI_REVIEW -> {None, "", "Unexpected error"}
      [] category = STATIC_ANALYSIS -> {None}
      [] OTHER -> {None, "File not found"}

\* MetricCollector._create_result: the ScoringResult of one collect()
CollectOutputs(collector) ==
    [category : {collector.category},
     normalized_score : ScoresOf(collector.category),
     weight : {collector.weight},
     details : DetailsOf(collector.category),
     error_message : ErrorsOf(collector.category)]

(***************************************************************************)
(* scoring_engine.py: ScoringEngine.calculate_score                        *)
(***************************************************************************)
\* truth value of `if result.error_message:`
Truthy(s) == s /= None /\ s /= ""

Front(seq) == SubSeq(seq, 1, Len(seq) - 1)

RECURSIVE BuildBreakdown(_)
\* breakdown[result.category] = result, for result in results: a dict in
\* insertion order, a later result of a category replacing the earlier one
BuildBreakdown(rs) ==
    IF rs = <<>> THEN <<>>
    ELSE LET prev == BuildBreakdown(Front(rs))
             r == rs[Len(rs)]
         IN IF \E i \in 1..Len(prev) : prev[i].category = r.category
            THEN [i \in 1..Len(prev) |->
                     IF prev[i].category = r.category THEN r ELSE prev[i]]
            ELSE Append(prev, r)

RECURSIVE WeightedScoreOwnWeight(_, _)
\* the weighted sum taken with each result's own weight attribute
WeightedScoreOwnWeight(bd, cfg) ==
    IF bd = <<>> THEN 0
    ELSE WeightedScoreOwnWeight(Front(bd), cfg)
         + bd[Len(bd)].normalized_score * bd[Len(bd)].weight

RECURSIVE WeightedScore(_, _)
\* weighted_score += result.normalized_score * config.weights.get(category, 0.0)
WeightedScore(bd, cfg) ==
    IF bd = <<>> THEN 0
    ELSE WeightedScore(Front(bd), cfg)
         + bd[Len(bd)].normalized_score
           * DictGet(cfg.weights, bd[Len(bd)].category, 0)

SecurityFactor(security_count) ==
    [text |-> "Security vulnerability detected", args |-> <<security_count>>]

TestFactor(failed_count, total_count) ==
    [text |-> "All tests failing", args |-> <<failed_count, total_count>>]

\* the security check charging the penalty once per counted issue
SecurityCheckPerIssue(result, cfg, acc) ==
    IF result.category = AI_REVIEW
    THEN LET security_count == DictGet(result.details, "security_issues", 0)
         IN IF security_count > 0
            THEN [penalties |-> acc.penalties + security_count *
                      DictGet(cfg.critical_penalties, "security_vulnerability", 0),
                  blocking_factors |->
                      Append(acc.blocking_factors, SecurityFactor(security_count))]
            ELSE acc
    ELSE acc

\* lines 68-76: the security-vulnerability check of one breakdown entry
SecurityCheck(result, cfg, acc) ==
    IF result.category = AI_REVIEW
    THEN LET security_count == DictGet(result.details, "security_issues", 0)
         IN IF security_count > 0
            THEN [penalties |-> acc.penalties +
                      DictGet(cfg.critical_penalties, "security_vulnerability", 0),
                  blocking_factors |->
                      Append(acc.blocking_factors, SecurityFactor(security_count))]
            ELSE acc
    ELSE acc

\* the test check without the total_count > 0 guard
TestCheckNoTotalGuard(result, cfg, acc) ==
    IF result.category = TESTS
    THEN LET failed_count == DictGet(result.details, "failed", 0)
             total_count == DictGet(result.details, "total", 0)
         IN IF failed_count = total_count
            THEN [penalties |-> acc.penalties +
                      DictGet(cfg.critical_penalties, "critical_test_failure", 0),
                  blocking_factors |->
                      Append(acc.blocking_factors, TestFactor(failed_count, total_count))]
            ELSE acc
    ELSE acc

\* lines 78-86: the critical-test-failure check of one breakdown entry
TestCheck(result, cfg, acc) ==
    IF result.category = TESTS
    THEN LET failed_count == DictGet(result.details, "failed", 0)
             total_count == DictGet(result.details, "total", 0)
         IN IF total_count > 0 /\ failed_count = total_count
            THEN [penalties |-> acc.penalties +
                      DictGet(cfg.critical_penalties, "critical_test_failure", 0),
                  blocking_factors |->
                      Append(acc.blocking_factors, TestFactor(failed_count, total_count))]
            ELSE acc
    ELSE acc

\* the loop body without the error_message skip
CheckResultNoSkip(result, cfg, acc) ==
    TestCheck(result, cfg, SecurityCheck(result, cfg, acc))

\* lines 63-86: the loop body, for one breakdown entry
CheckResult(result, cfg, acc) ==
    IF Truthy(result.error_message)
    THEN acc
    ELSE TestCheck(result, cfg, SecurityCheck(result, cfg, acc))

RECURSIVE PenaltyScan(_, _)
\* lines 58-86: penalties and blocking_factors after the loop over breakdown
PenaltyScan(bd, cfg) ==
    IF bd = <<>> THEN [penalties |-> 0, blocking_factors |-> <<>>]
    ELSE CheckResult(bd[Len(bd)], cfg, PenaltyScan(Front(bd), cfg))

\* the final score without the upper clamp
FinalScoreNoUpperClamp(weighted, pen) == Max(0, weighted - pen * One)

\* lines 89-90: max(0.0, weighted_score - penalties), then min(100.0, .)
FinalScore(weighted, pen) == Min(100 * One, Max(0, weighted - pen * One))

\* the status with `or` in place of `and`
StatusEither(final_score, threshold, blocking) ==
    IF final_score >= threshold * One \/ blocking = <<>> THEN "PASS" ELSE "FAIL"

\* lines 93-95
Status(final_score, threshold, blocking) ==
    IF final_score >= threshold * One /\ blocking = <<>> THEN "PASS" ELSE "FAIL"

(***************************************************************************)
(* The scoring engine as a state machine                                   *)
(***************************************************************************)
ConfigIdle ==
    /\ yaml_doc = None
    /\ fpc = "unused"
    /\ from_file = None

CommandIdle ==
    /\ args = None
    /\ inputs = None
    /\ cmd = "unused"
    /\ cmd_engine = None
    /\ cmd_result = None
    /\ exit_code = -1
    /\ cmd_error = ""

HealthIdle ==
    /\ henv = None
    /\ hpc = "unused"
    /\ health = None

RetryIdle ==
    /\ func = None
    /\ requests = <<>>
    /\ max_retries = 0
    /\ base_delay = 0
    /\ rpc = "unused"
    /\ attempt = 0
    /\ last_exception = None
    /\ call_count = 0
    /\ history = <<>>
    /\ delays = <<>>
    /\ rresult = None

CollectIdle ==
    /\ coll = None
    /\ artifact = None
    /\ cpc = "unused"
    /\ outcome = None

EvalIdle ==
    /\ models = <<>>
    /\ test_case = None
    /\ epc = "unused"
    /\ epending = {}
    /\ model_results = <<>>
    /\ gateway = <<>>
    /\ mm_result = None

InitScore ==
    /\ config \in ScoringConfigs
    /\ collectors \in Rosters
    /\ engine = "none"
    /\ self_config = None
    /\ pc = "idle"
    /\ pending = {}
    /\ results = <<>>
    /\ breakdown = <<>>
    /\ weighted_score = 0
    /\ penalties = 0
    /\ prscore = None
    /\ EvalIdle
    /\ CollectIdle
    /\ RetryIdle
    /\ ConfigIdle
    /\ CommandIdle
    /\ HealthIdle

\* ScoringEngine.__init__
Construct ==
    /\ engine = "none"
    /\ IF validate_weights(config)
       THEN engine' = "constructed" /\ self_config' = config
       ELSE engine' = "ValueError" /\ self_config' = self_config
    /\ UNCHANGED <<config, collectors, pc, pending, results, breakdown,
                   weighted_score, penalties, prscore>>
    /\ UNCHANGED <<evalVars, collectVars, retryVars>>
    /\ UNCHANGED <<configVars, commandVars, healthVars>>

\* calculate_score up to `await asyncio.gather(...)`: one task per collector
StartCalculate ==
    /\ engine = "constructed"
    /\ pc \in {"idle", "done"}
    /\ pc' = "gather"
    /\ pending' = 1..Len(collectors)
    /\ results' = [i \in 1..Len(collectors) |-> None]
    /\ breakdown' = <<>>
    /\ weighted_score' = 0
    /\ penalties' = 0
    /\ prscore' = None
    /\ UNCHANGED <<config, collectors, engine, self_config>>
    /\ UNCHANGED <<evalVars, collectVars, retryVars>>
    /\ UNCHANGED <<configVars, commandVars, healthVars>>

\* one collector's collect() completes (a task goes on running when the
\* gather has already propagated another task's exception)
CollectDone(i) ==
    /\ pc \in {"gather", "raised"}
    /\ i \in pending
    /\ \E r \in CollectOutputs(collectors[i]) :
           results' = [results EXCEPT ![i] = r]
    /\ pending' = pending \ {i}
    /\ UNCHANGED <<config, collectors, engine, self_config, pc, breakdown,
                   weighted_score, penalties, prscore>>
    /\ UNCHANGED <<evalVars, collectVars, retryVars>>
    /\ UNCHANGED <<configVars, commandVars, healthVars>>

\* one collector's collect() raises: asyncio.gather (line 45, called without
\* return_exceptions) propagates the first exception at once into
\* calculate_score, which has no handler and exits with it; the other tasks
\* are not cancelled
CollectRaises(i) ==
    /\ pc \in {"gather", "raised"}
    /\ i \in pending
    /\ collectors[i].raises
    /\ pc' = "raised"
    /\ pending' = pending \ {i}
    /\ UNCHANGED <<config, collectors, engine, self_config, results, breakdown,
                   weighted_score, penalties, prscore>>
    /\ UNCHANGED <<evalVars, collectVars, retryVars>>
    /\ UNCHANGED <<configVars, commandVars, healthVars>>

\* calculate_score after the gather: lines 47-103
Aggregate ==
    /\ pc = "gather"
    /\ pending = {}
    /\ LET bd == BuildBreakdown(results)
           weighted == WeightedScore(bd, self_config)
           scan == PenaltyScan(bd, self_config)
           final_score == FinalScore(weighted, scan.penalties)
       IN /\ breakdown' = bd
          /\ weighted_score' = weighted
          /\ penalties' = scan.penalties
          /\ prscore' = [total_score |-> final_score,
                         status |-> Status(final_score, self_config.threshold,
                                           scan.blocking_factors),
                         threshold |-> self_config.threshold,
                         blocking_factors |-> scan.blocking_factors,
                         breakdown |-> bd]
    /\ pc' = "done"
    /\ UNCHANGED <<config, collectors, engine, self_config, pending, results>>
    /\ UNCHANGED <<evalVars, collectVars, retryVars>>
    /\ UNCHANGED <<configVars, commandVars, healthVars>>

NextScore ==
    \/ Construct
    \/ StartCalculate
    \/ \E i \in 1..Len(collectors) : CollectDone(i)
    \/ \E i \in 1..Len(collectors) : CollectRaises(i)
    \/ Aggregate

SpecScore == InitScore /\ [][NextScore]_vars

(***************************************************************************)
(* Strings.  A string is a sequence of characters; str.lower() maps each   *)
(* character, and `x in y` is the substring test.                          *)
(***************************************************************************)
LowerChar(c) ==
    CASE c = "A" -> "a" [] c = "B" -> "b" [] c = "C" -> "c" [] c = "D" -> "d"
      [] c = "E" -> "e" [] c = "F" -> "f" [] c = "G" -> "g" [] c = "H" -> "h"
      [] c = "I" -> "i" [] c = "J" -> "j" [] c = "K" -> "k" [] c = "L" -> "l"
      [] c = "M" -> "m" [] c = "N" -> "n" [] c = "O" -> "o" [] c = "P" -> "p"
      [] c = "Q" -> "q" [] c = "R" -> "r" [] c = "S" -> "s" [] c = "T" -> "t"
      [] c = "U" -> "u" [] c = "V" -> "v" [] c = "W" -> "w" [] c = "X" -> "x"
      [] c = "Y" -> "y" [] c = "Z" -> "z"
      [] OTHER -> c

\* str.lower()
Lower(str) == [i \in 1..Len(str) |-> LowerChar(str[i])]

\* needle in haystack
IsSubstring(needle, haystack) ==
    \E i \in 0..(Len(haystack) - Len(needle)) :
        SubSeq(haystack, i + 1, i + Len(needle)) = needle

\* the elements of a list, as a set
Range(seq) == {seq[i] : i \in 1..Len(seq)}

(***************************************************************************)
(* Inputs of the multi-model evaluator                                     *)
(***************************************************************************)
\* largest roster handed to MultiModelEvaluator
MaxModels == 3
\* longest expected_issues list of a GoldenTestCase
MaxExpected == 2

\* keywords: "a", its upper-case spelling "A", "ab" (which contains "a"), "B"
Keywords == { <<"a">>, <<"A">>, <<"a", "b">>, <<"B">> }

\* response texts of the gateway: "" (content None), "A", "b", "Ab"
Responses == { <<>>, <<"A">>, <<"b">>, <<"A", "b">> }

\* exceptions of the gateway call, by their str()
GatewayErrors == { <<"timeout">> }

\* latency measured on the normal path, in ms
Latencies == { 120 }

ModelNames ==
    <<"Claude Opus 4.5", "GPT-5.1 Codex", "Gemini 3 Pro", "Claude 3.5 Sonnet",
      "GPT-4o", "Gemini 2.5 Pro">>

ModelIds ==
    <<"anthropic/claude-opus-4.5", "openai/gpt-5.1-codex",
      "google/gemini-3-pro-preview", "anthropic/claude-3.5-sonnet",
      "openai/gpt-4o", "google/gemini-2.5-pro-preview-05-06">>

ModelConfig(i) == [name |-> ModelNames[i], model_id |-> ModelIds[i]]

\* DEFAULT_MODELS (lines 18-22)
DEFAULT_MODELS == [i \in 1..3 |-> ModelConfig(i)]

\* the models argument of __init__: None / [] or a list of 1..MaxModels models
ModelArgs == { [i \in 1..n |-> ModelConfig(i)] : n \in 0..MaxModels }

\* self.models = models or DEFAULT_MODELS
ModelsOrDefault(arg) == IF arg = <<>> THEN DEFAULT_MODELS ELSE arg

RECURSIVE SeqsUpTo(_, _)
\* the lists over S of length at most n
SeqsUpTo(S, n) ==
    IF n = 0 THEN {<<>>}
    ELSE LET shorter == SeqsUpTo(S, n - 1)
         IN shorter \cup {Append(q, x) : q \in shorter, x \in S}

GoldenTestCases == [id : {"t1"}, expected_issues : SeqsUpTo(Keywords, MaxExpected)]

(***************************************************************************)
(* multi_model_evaluator.py                                                *)
(***************************************************************************)
\* _evaluate_single_model, lines 120-134: the gateway returned review_text
EvaluateReturned(model, tc, review_text, latency_ms) ==
    LET review_text_lower == Lower(review_text)
        matched == SelectSeq(tc.expected_issues,
                       LAMBDA issue : IsSubstring(Lower(issue), review_text_lower))
        missed == SelectSeq(tc.expected_issues,
                       LAMBDA issue : ~IsSubstring(Lower(issue), review_text_lower))
    IN [model_name |-> model.name,
        model_id |-> model.model_id,
        review_text |-> review_text,
        matched_issues |-> matched,
        missed_issues |-> missed,
        passed |-> (Len(missed) = 0),
        latency_ms |-> latency_ms]

\* what `await self._query_model(model, prompt)` gives the task: the pair
\* (review_text, latency_ms) of lines 101-103, or an exception e out of the
\* gateway (an Exception, which is what line 135 catches)
Returned(text, ms) == [kind |-> "returned", review_text |-> text, latency_ms |-> ms, e |-> <<>>]
Raised(e) == [kind |-> "raised", review_text |-> <<>>, latency_ms |-> 0, e |-> e]

\* _evaluate_single_model with an exception path that reports nothing missed
EvaluateRaisedNoneMissed(model, tc, e) ==
    [model_name |-> model.name,
     model_id |-> model.model_id,
     review_text |-> <<"Error: ">> \o e,
     matched_issues |-> <<>>,
     missed_issues |-> <<>>,
     passed |-> FALSE,
     latency_ms |-> 0]

\* _evaluate_single_model, lines 135-144: the gateway raised e
EvaluateRaised(model, tc, e) ==
    [model_name |-> model.name,
     model_id |-> model.model_id,
     review_text |-> <<"Error: ">> \o e,
     matched_issues |-> <<>>,
     missed_issues |-> tc.expected_issues,
     passed |-> FALSE,
     latency_ms |-> 0]

RECURSIVE AllMatched(_)
\* lines 159-161: all_matched.extend(result.matched_issues), in roster order
AllMatched(rs) ==
    IF rs = <<>> THEN <<>>
    ELSE AllMatched(Front(rs)) \o rs[Len(rs)].matched_issues

\* Counter(all_matched)[issue]
CountOf(issue, all_matched) ==
    Cardinality({i \in 1..Len(all_matched) : all_matched[i] = issue})

\* the matched issues themselves, one entry per model that found one
CounterKeysPerModel(all_matched) == all_matched

RECURSIVE CounterKeys(_)
\* the keys of Counter(all_matched), in order of first appearance
CounterKeys(all_matched) ==
    IF all_matched = <<>> THEN <<>>
    ELSE LET prev == CounterKeys(Front(all_matched))
             x == all_matched[Len(all_matched)]
         IN IF x \in Range(prev) THEN prev ELSE Append(prev, x)

\* line 166 with a majority that is every model
MajorityThresholdEveryModel(total_models) == total_models

\* line 166
MajorityThreshold(total_models) == (total_models \div 2) + 1

\* lines 158-193: the aggregation after the gather
AggregateResults(tc, rs, roster) ==
    LET all_matched == AllMatched(rs)
        keys == CounterKeys(all_matched)
        total_models == Len(roster)
        majority_threshold == MajorityThreshold(total_models)
        consensus_issues ==
            SelectSeq(keys, LAMBDA issue : CountOf(issue, all_matched) >= majority_threshold)
        unanimous_issues ==
            SelectSeq(keys, LAMBDA issue : CountOf(issue, all_matched) = total_models)
        expected_set == {Lower(issue) : issue \in Range(tc.expected_issues)}
        consensus_passed ==
            expected_set \subseteq {Lower(issue) : issue \in Range(consensus_issues)}
    IN [test_id |-> tc.id,
        model_results |-> rs,
        consensus_issues |-> consensus_issues,
        unanimous_issues |-> unanimous_issues,
        any_model_issues |-> keys,
        consensus_passed |-> consensus_passed,
        models_passed |-> Cardinality({i \in 1..Len(rs) : rs[i].passed}),
        total_models |-> total_models]

(***************************************************************************)
(* The multi-model evaluator as a state machine                            *)
(***************************************************************************)
ScoreIdle ==
    /\ config = None
    /\ collectors = <<>>
    /\ engine = "unused"
    /\ self_config = None
    /\ pc = "unused"
    /\ pending = {}
    /\ results = <<>>
    /\ breakdown = <<>>
    /\ weighted_score = 0
    /\ penalties = 0
    /\ prscore = None

\* the place of task i's result in a list filled in order of completion:
\* after the results of the tasks that are no longer waiting
ResultSlotByCompletion(i, waiting) == Len(models) - Cardinality(waiting) + 1

\* line 156: the place of task i's result in the list that asyncio.gather
\* returns, which is in the order of the tasks, whichever completes first
ResultSlot(i, waiting) == i

\* after MultiModelEvaluator.__init__
InitEval ==
    /\ models \in {ModelsOrDefault(arg) : arg \in ModelArgs}
    /\ test_case \in GoldenTestCases
    /\ epc = "idle"
    /\ epending = {}
    /\ model_results = <<>>
    /\ gateway = <<>>
    /\ mm_result = None
    /\ ScoreIdle
    /\ CollectIdle
    /\ RetryIdle
    /\ ConfigIdle
    /\ CommandIdle
    /\ HealthIdle

\* evaluate_async up to `await asyncio.gather(*tasks)`: one task per model
StartEvaluate ==
    /\ epc \in {"idle", "done"}
    /\ epc' = "gather"
    /\ epending' = 1..Len(models)
    /\ model_results' = [i \in 1..Len(models) |-> None]
    /\ gateway' = [i \in 1..Len(models) |-> None]
    /\ mm_result' = None
    /\ UNCHANGED <<models, test_case>>
    /\ UNCHANGED <<scoreVars, collectVars, retryVars>>
    /\ UNCHANGED <<configVars, commandVars, healthVars>>

\* the task of model i completes, its gateway call having returned a text
QueryReturns(i) ==
    /\ epc = "gather"
    /\ i \in epending
    /\ \E text \in Responses, ms \in Latencies :
           /\ gateway' = [gateway EXCEPT ![i] = Returned(text, ms)]
           /\ model_results' = [model_results EXCEPT
                                ![ResultSlot(i, epending)] =
                                    EvaluateReturned(models[i], test_case, text, ms)]
    /\ epending' = epending \ {i}
    /\ UNCHANGED <<models, test_case, epc, mm_result>>
    /\ UNCHANGED <<scoreVars, collectVars, retryVars>>
    /\ UNCHANGED <<configVars, commandVars, healthVars>>

\* the task of model i completes, its gateway call having raised
QueryRaises(i) ==
    /\ epc = "gather"
    /\ i \in epending
    /\ \E e \in GatewayErrors :
           /\ gateway' = [gateway EXCEPT ![i] = Raised(e)]
           /\ model_results' = [model_results EXCEPT
                                ![ResultSlot(i, epending)] =
                                    EvaluateRaised(models[i], test_case, e)]
    /\ epending' = epending \ {i}
    /\ UNCHANGED <<models, test_case, epc, mm_result>>
    /\ UNCHANGED <<scoreVars, collectVars, retryVars>>
    /\ UNCHANGED <<configVars, commandVars, healthVars>>

\* evaluate_async after the gather: lines 158-193
AggregateEval ==
    /\ epc = "gather"
    /\ epending = {}
    /\ mm_result' = AggregateResults(test_case, model_results, models)
    /\ epc' = "done"
    /\ UNCHANGED <<models, test_case, epending, model_results, gateway>>
    /\ UNCHANGED <<scoreVars, collectVars, retryVars>>
    /\ UNCHANGED <<configVars, commandVars, healthVars>>

NextEval ==
    \/ StartEvaluate
    \/ \E i \in 1..Len(models) : QueryReturns(i)
    \/ \E i \in 1..Len(models) : QueryRaises(i)
    \/ AggregateEval

SpecEval == InitEval /\ [][NextEval]_vars

(***************************************************************************)
(* The built-in collectors (collectors/*.py).                              *)
(*                                                                         *)
(* Exceptions.  An operator that models code which may raise gives         *)
(* Ok(value) or Raise(exception class); a try/except is a case             *)
(* distinction on that.                                                    *)
(*                                                                         *)
(* Numbers.  A normalized score is a Python float.  Where the code gets    *)
(* it by a division of integers it is kept exactly, as the ratio num/den;  *)
(* where the code gets it from math.exp or math.tanh it is the IEEE-754    *)
(* double that CPython computes, written as its 64 bits in three pieces    *)
(* (22, 21 and 21 bits, most significant first): for the non-negative      *)
(* doubles that occur, the order of the numbers is the lexicographic       *)
(* order of the pieces.                                                    *)
(***************************************************************************)
Ok(v) == [raised |-> FALSE, value |-> v, exc |-> ""]
Raise(e) == [raised |-> TRUE, value |-> <<>>, exc |-> e]

\* the float num/den, den /= 0
Ratio(n, d) ==
    IF d < 0 THEN [rep |-> "ratio", num |-> -n, den |-> -d, bits |-> <<>>]
    ELSE [rep |-> "ratio", num |-> n, den |-> d, bits |-> <<>>]

\* the float with the given bits
Double(b) == [rep |-> "double", num |-> 0, den |-> 1, bits |-> b]

\* a < b for two non-negative doubles given by their bits
BitsLess(a, b) ==
    \/ a[1] < b[1]
    \/ a[1] = b[1] /\ a[2] < b[2]
    \/ a[1] = b[1] /\ a[2] = b[2] /\ a[3] < b[3]

\* the doubles 0.0, 50.0, 80.0 and 100.0
Double0 == Double(<<0, 0, 0>>)
Double50 == Double(<<1053248, 0, 0>>)
Double80 == Double(<<1053952, 0, 0>>)
Double100 == Double(<<1054272, 0, 0>>)

\* x < y for two floats of the same representation
FloatLess(x, y) ==
    IF x.rep = "ratio" THEN x.num * y.den < y.num * x.den
    ELSE BitsLess(x.bits, y.bits)

\* the literal k (a whole number of points) in the representation of x
Literal(k, x) ==
    IF x.rep = "ratio" THEN Ratio(k, 1)
    ELSE CASE k = 0 -> Double0 [] k = 50 -> Double50
           [] k = 80 -> Double80 [] k = 100 -> Double100

\* Python's max(a, b) and min(a, b) on floats: the first argument unless the
\* second is greater (smaller)
PyMax(a, b) == IF FloatLess(a, b) THEN b ELSE a
PyMin(a, b) == IF FloatLess(b, a) THEN b ELSE a

(***************************************************************************)
(* Text of attributes.  int(text) and float(text) parse an optional sign   *)
(* and decimal digits (float: with at most one point); anything else       *)
(* raises ValueError.  A rate is counted in units of 1/RateScale.          *)
(***************************************************************************)
Digits == {"0", "1", "2", "3", "4", "5", "6", "7", "8", "9"}

DigitValue(c) ==
    CASE c = "0" -> 0 [] c = "1" -> 1 [] c = "2" -> 2 [] c = "3" -> 3 [] c = "4" -> 4
      [] c = "5" -> 5 [] c = "6" -> 6 [] c = "7" -> 7 [] c = "8" -> 8 [] c = "9" -> 9

RECURSIVE DigitsValue(_)
DigitsValue(ds) ==
    IF ds = <<>> THEN 0
    ELSE 10 * DigitsValue(SubSeq(ds, 1, Len(ds) - 1)) + DigitValue(ds[Len(ds)])

AllDigits(ds) == \A i \in 1..Len(ds) : ds[i] \in Digits

Unsigned(text) == IF text /= <<>> /\ text[1] \in {"-", "+"} THEN Tail(text) ELSE text
SignOf(text) == IF text /= <<>> /\ text[1] = "-" THEN -1 ELSE 1

\* int(text)
PyInt(text) ==
    LET body == Unsigned(text)
    IN IF body /= <<>> /\ AllDigits(body)
       THEN Ok(SignOf(text) * DigitsValue(body))
       ELSE Raise("ValueError")

RateScale == 10000
RateDecimals == 4

RECURSIVE Pow10(_)
Pow10(k) == IF k = 0 THEN 1 ELSE 10 * Pow10(k - 1)

\* float(text), in units of 1/RateScale
PyFloat(text) ==
    LET body == Unsigned(text)
        dots == {i \in 1..Len(body) : body[i] = "."}
    IN IF dots = {}
       THEN IF body /= <<>> /\ AllDigits(body)
            THEN Ok(SignOf(text) * DigitsValue(body) * RateScale)
            ELSE Raise("ValueError")
       ELSE LET dot == CHOOSE i \in dots : TRUE
                whole == SubSeq(body, 1, dot - 1)
                frac == SubSeq(body, dot + 1, Len(body))
            IN IF /\ Cardinality(dots) = 1
                  /\ Len(body) > 1
                  /\ AllDigits(whole)
                  /\ AllDigits(frac)
                  /\ Len(frac) <= RateDecimals
               THEN Ok(SignOf(text) * (DigitsValue(whole) * RateScale
                          + DigitsValue(frac) * Pow10(RateDecimals - Len(frac))))
               ELSE Raise("ValueError")

(***************************************************************************)
(* XML artifacts: the file at a collector's path                           *)
(***************************************************************************)
NoElement == [tag |-> "", attrs |-> EmptyDict, children |-> <<>>]

Element(tag, attrs, children) == [tag |-> tag, attrs |-> attrs, children |-> children]

\* no file at the path
MissingFile == [state |-> "missing", root |-> NoElement]
\* a file that cannot be opened (open raises PermissionError)
UnreadableFile == [state |-> "unreadable", root |-> NoElement]
\* a file that is not well-formed XML (ET.parse raises ParseError)
MalformedXml == [state |-> "malformed", root |-> NoElement]
\* a well-formed document
XmlDocument(root) == [state |-> "parsed", root |-> root]

\* path.exists(), then ET.parse(path).getroot()
ParseXml(a) ==
    CASE a.state = "unreadable" -> Raise("PermissionError")
      [] a.state = "malformed" -> Raise("ParseError")
      [] a.state = "parsed" -> Ok(a.root)

\* an attribute the element does not carry
Absent == <<"<absent>">>

\* the attributes given (those that are not Absent) as a dict
Attrs(names, texts) ==
    [n \in {names[i] : i \in {j \in 1..Len(names) : texts[j] /= Absent}} |->
        texts[CHOOSE i \in 1..Len(names) : names[i] = n]]

\* MetricCollector._create_result
CreateResult(self, normalized_score, details, error) ==
    [category |-> self.category,
     normalized_score |-> normalized_score,
     weight |-> self.weight,
     details |-> details,
     error_message |-> error]

\* `except Exception as e: return self._create_result(...)`, the last handler
\* of every collect(), here without effect: the exception goes on to the caller
ExceptExceptionReraises(body, fallback) == body

\* `except Exception as e: return self._create_result(...)`, the last handler
\* of every collect()
ExceptException(body, fallback) ==
    IF body.raised THEN Ok(fallback) ELSE body

(***************************************************************************)
(* collectors/test_collector.py: TestResultCollector                       *)
(***************************************************************************)
TestResultCollector ==
    [kind |-> "TestResultCollector", category |-> TESTS, weight |-> CollectorWeight(TESTS)]

\* int(element.get(name, 0))
IntAttr(element, name) ==
    IF name \in DOMAIN element.attrs THEN PyInt(element.attrs[name]) ELSE Ok(0)

NoCounts == [total |-> 0, failed |-> 0, errors |-> 0, skipped |-> 0]

\* lines 59-62 (and 64-67): the four counts of one element added to acc
AddCounts(acc, element) ==
    LET t == IntAttr(element, "tests")
        f == IntAttr(element, "failures")
        e == IntAttr(element, "errors")
        s == IntAttr(element, "skipped")
    IN IF t.raised \/ f.raised \/ e.raised \/ s.raised THEN Raise("ValueError")
       ELSE Ok([total |-> acc.total + t.value,
                failed |-> acc.failed + f.value,
                errors |-> acc.errors + e.value,
                skipped |-> acc.skipped + s.value])

RECURSIVE SumSuites(_)
\* lines 58-62: the loop over root.findall("testsuite"), in document order
SumSuites(suites) ==
    IF suites = <<>> THEN Ok(NoCounts)
    ELSE LET before == SumSuites(Front(suites))
         IN IF before.raised THEN before
            ELSE AddCounts(before.value, suites[Len(suites)])

\* lines 93-110 with passed = total - failed: errors not subtracted
TestScoreIgnoringErrors(self, c) ==
    LET passed == c.total - c.failed
    IN CreateResult(self, Ratio(passed * 100, c.total),
           ("total" :> c.total) @@ ("passed" :> passed) @@ ("failed" :> c.failed)
               @@ ("errors" :> c.errors) @@ ("skipped" :> c.skipped),
           None)

\* lines 93-110: the result for counts with total /= 0 (details without the
\* formatted "pass_rate" text)
TestScore(self, c) ==
    LET passed == c.total - c.failed - c.errors
    IN CreateResult(self, Ratio(passed * 100, c.total),
           ("total" :> c.total) @@ ("passed" :> passed) @@ ("failed" :> c.failed)
               @@ ("errors" :> c.errors) @@ ("skipped" :> c.skipped),
           None)

\* lines 37-110: the body of the try
TestCollectBody(self, a) ==
    IF a.state = "missing"
    THEN Ok(CreateResult(self, Ratio(0, 1), ("error" :> "JUnit XML file not found"),
                         "File not found"))
    ELSE
    LET parsed == ParseXml(a)
        root == parsed.value
        counts == IF root.tag = "testsuites"
                  THEN SumSuites(SelectSeq(root.children, LAMBDA ch : ch.tag = "testsuite"))
                  ELSE AddCounts(NoCounts, root)
    IN IF parsed.raised THEN parsed
       ELSE IF root.tag \notin {"testsuites", "testsuite"}
       THEN Ok(CreateResult(self, Ratio(0, 1), ("error" :> "Unknown root element"),
                            "Invalid JUnit XML: unknown root element"))
       ELSE IF counts.raised THEN counts
       ELSE IF counts.value.total = 0
       THEN Ok(CreateResult(self, Ratio(0, 1),
                   ("total" :> 0) @@ ("passed" :> 0) @@ ("failed" :> 0) @@ ("errors" :> 0)
                       @@ ("skipped" :> counts.value.skipped)
                       @@ ("warning" :> "No tests found"),
                   "No tests found in JUnit XML"))
       ELSE Ok(TestScore(self, counts.value))

\* TestResultCollector.collect, lines 30-125
TestCollect(self, a) ==
    LET body == TestCollectBody(self, a)
    IN IF body.raised /\ body.exc = "ParseError"
       THEN Ok(CreateResult(self, Ratio(0, 1), ("error" :> "XML parse error"),
                            "Failed to parse JUnit XML"))
       ELSE ExceptException(body,
                CreateResult(self, Ratio(0, 1), ("error" :> body.exc),
                             "Unexpected error collecting test results"))

\* the attribute texts of the <testsuite> elements considered
TestsTexts == {Absent, <<"0">>, <<"1">>, <<"2">>, <<"x">>}
FailuresTexts == {Absent, <<"1">>, <<"2">>, <<"-", "1">>}
ErrorsTexts == {Absent, <<"1">>}
SkippedTexts == {Absent, <<"1">>}

TestSuiteElements ==
    { Element("testsuite",
              Attrs(<<"tests", "failures", "errors", "skipped">>, <<t, f, e, s>>), <<>>) :
        t \in TestsTexts, f \in FailuresTexts, e \in ErrorsTexts, s \in SkippedTexts }

\* what may be at junit_path: nothing, an unreadable or malformed file, a
\* <testsuite> document, a <testsuites> document of up to two suites (one
\* may be preceded by a <properties> element), a document with another root
JUnitArtifacts ==
    {MissingFile, UnreadableFile, MalformedXml}
    \cup {XmlDocument(e) : e \in TestSuiteElements}
    \cup {XmlDocument(Element("testsuites", EmptyDict, ch)) :
             ch \in {<<>>} \cup {<<e>> : e \in TestSuiteElements}
                    \cup {<<e1, e2>> : e1 \in TestSuiteElements, e2 \in TestSuiteElements}
                    \cup {<<Element("properties", EmptyDict, <<>>), e>> :
                             e \in TestSuiteElements}}
    \cup {XmlDocument(Element("html", EmptyDict, <<>>))}

(***************************************************************************)
(* collectors/coverage_collector.py: CoverageCollector.  Coverage          *)
(* percentages, the baseline, the tolerance and the delta are counted in   *)
(* units of 1/RateScale of a percentage point; baseline_coverage is <<>>   *)
(* for None and <<b>> for the float b.                                     *)
(***************************************************************************)
CoverageCollector(baseline_coverage, tolerance) ==
    [kind |-> "CoverageCollector", category |-> COVERAGE,
     weight |-> CollectorWeight(COVERAGE),
     baseline_coverage |-> baseline_coverage, tolerance |-> tolerance]

\* float(element.get(name, 0.0))
FloatAttr(element, name) ==
    IF name \in DOMAIN element.attrs THEN PyFloat(element.attrs[name]) ELSE Ok(0)

\* line 133, `50 + 50 * math.tanh(delta / 2.5)`: the double CPython computes
\* for the delta d / RateScale, for every delta the inputs below produce
SigmoidTable ==
    (-850500 :> <<0, 0, 0>>)
    @@ (-850000 :> <<0, 0, 0>>)
    @@ (-100500 :> <<1042463, 1681231, 37888>>)
    @@ (-100000 :> <<1042506, 1835652, 1888256>>)
    @@ (-1500 :> <<1053152, 241244, 1099410>>)
    @@ (-1000 :> <<1053184, 71537, 10344>>)
    @@ (-500 :> <<1053216, 8946, 874742>>)
    @@ (0 :> <<1053248, 0, 0>>)
    @@ (500 :> <<1053279, 2088205, 1222410>>)
    @@ (1000 :> <<1053311, 2025614, 2086808>>)
    @@ (4500 :> <<1053532, 1949069, 2043449>>)
    @@ (5000 :> <<1053563, 1678796, 202326>>)
    @@ (49500 :> <<1054242, 145928, 792574>>)
    @@ (50000 :> <<1054243, 465702, 186495>>)
    @@ (149500 :> <<1054271, 2075694, 427962>>)
    @@ (150000 :> <<1054271, 2076535, 1197708>>)
    @@ (750000 :> <<1054272, 0, 0>>)
    @@ (849000 :> <<1054272, 0, 0>>)
    @@ (849500 :> <<1054272, 0, 0>>)
    @@ (850000 :> <<1054272, 0, 0>>)
    @@ (850500 :> <<1054272, 0, 0>>)
    @@ (851000 :> <<1054272, 0, 0>>)
    @@ (855000 :> <<1054272, 0, 0>>)
    @@ (900000 :> <<1054272, 0, 0>>)
    @@ (1000000 :> <<1054272, 0, 0>>)

\* _normalize_delta without the tanh: 50 for every delta
NormalizeDeltaFlat(delta) == Double50

\* _normalize_delta, lines 117-135
NormalizeDelta(delta) ==
    LET score == Double(SigmoidTable[delta])
    IN PyMax(Double0, PyMin(Double100, score))

\* lines 71-81: the delta against the baseline, small changes ignored
CoverageDelta(self, current_coverage) ==
    LET delta == IF self.baseline_coverage = <<>> THEN 0
                 ELSE current_coverage - self.baseline_coverage[1]
    IN IF Abs(delta) < self.tolerance THEN 0 ELSE delta

\* lines 50-100: the body of the try (details without the formatted texts)
CoverageCollectBody(self, a) ==
    IF a.state = "missing"
    THEN Ok(CreateResult(self, Double50, ("error" :> "Coverage XML file not found"),
                         "File not found"))
    ELSE
    LET parsed == ParseXml(a)
        root == parsed.value
        line_rate == FloatAttr(root, "line-rate")
        branch_rate == FloatAttr(root, "branch-rate")
        current_coverage == line_rate.value * 100
        delta == CoverageDelta(self, current_coverage)
    IN IF parsed.raised THEN parsed
       ELSE IF line_rate.raised THEN line_rate
       ELSE IF branch_rate.raised THEN branch_rate
       ELSE Ok(CreateResult(self, NormalizeDelta(delta),
                   ("delta" :> delta) @@ ("current_coverage" :> current_coverage),
                   None))

\* CoverageCollector.collect, lines 43-115
CoverageCollect(self, a) ==
    LET body == CoverageCollectBody(self, a)
    IN IF body.raised /\ body.exc = "ParseError"
       THEN Ok(CreateResult(self, Double50, ("error" :> "XML parse error"),
                            "Failed to parse Cobertura XML"))
       ELSE ExceptException(body,
                CreateResult(self, Double50, ("error" :> body.exc),
                             "Unexpected error collecting coverage"))

\* baselines: None, 85.0, 85.05 and 0.0; tolerances: 0.1 (the default), 0.0
\* and 0.5
BaselineCoverages == {<<>>, <<850000>>, <<850500>>, <<0>>}
Tolerances == {1000, 0, 5000}

CoverageCollectors ==
    {CoverageCollector(b, t) : b \in BaselineCoverages, t \in Tolerances}

LineRateTexts ==
    { Absent, <<"0">>, <<"0", ".", "7", "5">>, <<"0", ".", "8", "4", "9">>,
      <<"0", ".", "8", "4", "9", "5">>, <<"0", ".", "8", "5">>,
      <<"0", ".", "8", "5", "0", "5">>, <<"0", ".", "8", "5", "1">>,
      <<"0", ".", "8", "5", "5">>, <<"0", ".", "9">>, <<"1">>, <<"n", "/", "a">> }

BranchRateTexts == {Absent, <<"0", ".", "8">>, <<"x">>}

\* what may be at coverage_path: nothing, an unreadable or malformed file, a
\* <coverage> document, a document with another root
CoberturaArtifacts ==
    {MissingFile, UnreadableFile, MalformedXml}
    \cup {XmlDocument(Element("coverage", Attrs(<<"line-rate", "branch-rate">>, <<l, b>>),
                              <<>>)) :
             l \in LineRateTexts, b \in BranchRateTexts}
    \cup {XmlDocument(Element("html", EmptyDict, <<>>)),
          XmlDocument(Element("testsuite", Attrs(<<"tests">>, <<<<"2">>>>), <<>>))}

(***************************************************************************)
(* collectors/static_analysis_collector.py: StaticAnalysisCollector.  A    *)
(* results path is "" for None.  JSON values are records [type, ...].      *)
(***************************************************************************)
StaticAnalysisCollector(ruff_results_path, pyright_results_path) ==
    [kind |-> "StaticAnalysisCollector", category |-> STATIC_ANALYSIS,
     weight |-> CollectorWeight(STATIC_ANALYSIS),
     ruff_results_path |-> ruff_results_path,
     pyright_results_path |-> pyright_results_path]

\* JSON values: an array of n items, an object without "summary", a pyright
\* report (an object whose summary.errorCount is the number n), a report
\* whose errorCount is a text
JsonArray(n) == [type |-> "array", n |-> n]
JsonObject == [type |-> "object", n |-> 0]
JsonReport(n) == [type |-> "report", n |-> n]
JsonTextReport == [type |-> "text_report", n |-> 0]

\* the text of a results file or of a tool's stdout
NoText == [readable |-> TRUE, parses |-> FALSE, empty |-> TRUE, json |-> JsonObject]
NotJson == [readable |-> TRUE, parses |-> FALSE, empty |-> FALSE, json |-> JsonObject]
JsonText(v) == [readable |-> TRUE, parses |-> TRUE, empty |-> FALSE, json |-> v]
\* a file that open() refuses (PermissionError)
Unreadable == [readable |-> FALSE, parses |-> FALSE, empty |-> FALSE, json |-> JsonObject]

\* open(path) and json.load, or json.loads(stdout)
JsonLoad(text) ==
    IF ~text.readable THEN Raise("PermissionError")
    ELSE IF text.parses THEN Ok(text.json)
    ELSE Raise("JSONDecodeError")

\* what a tool's input is: the results file (exists /\ readable /\ its text),
\* and the subprocess (whether it can be started, its return code, its stdout)
ToolInput(file_exists, file_text, starts, returncode, stdout) ==
    [file_exists |-> file_exists, file_text |-> file_text,
     starts |-> starts, returncode |-> returncode, stdout |-> stdout]

\* `len(data) if isinstance(data, list) else 0`
RuffCount(data) == IF data.type = "array" THEN data.n ELSE 0

\* _collect_ruff, lines 89-119: the body of the try
CollectRuffBody(self, t) ==
    IF self.ruff_results_path /= "" /\ t.file_exists
    THEN LET data == JsonLoad(t.file_text)
         IN IF data.raised THEN data ELSE Ok(RuffCount(data.value))
    ELSE IF ~t.starts THEN Raise("FileNotFoundError")
    ELSE IF t.returncode = 0 THEN Ok(0)
    ELSE IF ~t.stdout.empty
    THEN LET data == JsonLoad(t.stdout)
         IN IF data.raised THEN data ELSE Ok(RuffCount(data.value))
    ELSE Ok(0)

\* _collect_ruff, lines 82-123: `except Exception: return 0`
CollectRuff(self, t) ==
    LET body == CollectRuffBody(self, t)
    IN IF body.raised THEN Ok(0) ELSE body

\* `data.get("summary", {}).get("errorCount", 0)`: an array has no get
\* (AttributeError); the count is whatever the report holds, a number or not
ErrorCountOf(data) ==
    CASE data.type = "array" -> Raise("AttributeError")
      [] data.type = "object" -> Ok([number |-> TRUE, n |-> 0])
      [] data.type = "report" -> Ok([number |-> TRUE, n |-> data.n])
      [] data.type = "text_report" -> Ok([number |-> FALSE, n |-> 0])

\* _collect_pyright, lines 132-158: the body of the try
CollectPyrightBody(self, t) ==
    IF self.pyright_results_path /= "" /\ t.file_exists
    THEN LET data == JsonLoad(t.file_text)
         IN IF data.raised THEN data ELSE ErrorCountOf(data.value)
    ELSE IF ~t.starts THEN Raise("FileNotFoundError")
    ELSE IF ~t.stdout.empty
    THEN LET data == JsonLoad(t.stdout)
         IN IF data.raised THEN data ELSE ErrorCountOf(data.value)
    ELSE Ok([number |-> TRUE, n |-> 0])

\* _collect_pyright, lines 125-162: `except Exception: return 0`
CollectPyright(self, t) ==
    LET body == CollectPyrightBody(self, t)
    IN IF body.raised THEN Ok([number |-> TRUE, n |-> 0]) ELSE body

\* line 183, `80.0 * math.exp(-0.05 * (error_count - 5))`: the double CPython
\* computes, for every error count above 5 that the inputs below produce
DecayTable ==
    (6 :> <<1053889, 1203059, 555048>>)
    @@ (7 :> <<1053830, 402433, 342788>>)
    @@ (8 :> <<1053773, 1481029, 723468>>)
    @@ (9 :> <<1053719, 2045486, 916696>>)
    @@ (12 :> <<1053452, 3166, 59213>>)
    @@ (13 :> <<1053364, 40512, 986410>>)
    @@ (14 :> <<1053280, 688008, 1636947>>)
    @@ (100 :> <<1046921, 1035452, 396479>>)
    @@ (101 :> <<1046852, 758658, 820994>>)
    @@ (102 :> <<1046786, 1261180, 782707>>)
    @@ (107 :> <<1046477, 1639793, 1556914>>)
    @@ (108 :> <<1046380, 731782, 186164>>)
    @@ (14838 :> <<0, 0, 1280>>)
    @@ (14839 :> <<0, 0, 1200>>)
    @@ (14840 :> <<0, 0, 1200>>)
    @@ (14845 :> <<0, 0, 880>>)
    @@ (14846 :> <<0, 0, 880>>)
    @@ (14900 :> <<0, 0, 80>>)
    @@ (14901 :> <<0, 0, 80>>)
    @@ (14902 :> <<0, 0, 80>>)
    @@ (14907 :> <<0, 0, 80>>)
    @@ (14908 :> <<0, 0, 0>>)

\* _normalize_errors, lines 164-185
NormalizeErrors(error_count) ==
    IF error_count = 0 THEN Double100
    ELSE IF error_count <= 5 THEN Double80
    ELSE LET score == Double(DecayTable[error_count])
         IN PyMax(Double0, PyMin(Double100, score))

\* lines 50-72: the body of the try
StaticCollectBody(self, a) ==
    LET ruff_errors == CollectRuff(self, a.ruff).value
        pyright_errors == CollectPyright(self, a.pyright).value
        total_errors == ruff_errors + pyright_errors.n
    IN IF ~pyright_errors.number THEN Raise("TypeError")
       ELSE Ok(CreateResult(self, NormalizeErrors(total_errors),
                   ("ruff_errors" :> ruff_errors) @@ ("pyright_errors" :> pyright_errors.n)
                       @@ ("total_errors" :> total_errors),
                   None))

\* StaticAnalysisCollector.collect, lines 43-80
StaticCollect(self, a) ==
    LET body == StaticCollectBody(self, a)
    IN ExceptException(body,
           CreateResult(self, Double0, ("error" :> body.exc),
                        "Unexpected error during static analysis"))

StaticAnalysisCollectors ==
    {StaticAnalysisCollector(r, p) : r \in {"", "ruff.json"}, p \in {"", "pyright.json"}}

\* numbers of findings: none, few, just above five, many, and so many that
\* the exponential leaves the range of the normal doubles
RuffCounts == {0, 1, 5, 6, 100, 14838, 14900}
PyrightCounts == {0, 1, 2, 7, 8}

RuffTexts ==
    {NotJson, Unreadable, JsonText(JsonObject)} \cup {JsonText(JsonArray(n)) : n \in RuffCounts}

PyrightTexts ==
    {NotJson, Unreadable, JsonText(JsonArray(0)), JsonText(JsonObject), JsonText(JsonTextReport)}
    \cup {JsonText(JsonReport(n)) : n \in PyrightCounts}

\* a results file with some text; or no results file and a tool that cannot
\* be started, that exits with 0, or that exits with 1 and some stdout
RuffInputs ==
    {ToolInput(TRUE, txt, FALSE, 0, NoText) : txt \in RuffTexts}
    \cup {ToolInput(FALSE, NoText, FALSE, 0, NoText),
          ToolInput(FALSE, NoText, TRUE, 0, JsonText(JsonArray(0)))}
    \cup {ToolInput(FALSE, NoText, TRUE, 1, txt) : txt \in (RuffTexts \ {Unreadable}) \cup {NoText}}

PyrightInputs ==
    {ToolInput(TRUE, txt, FALSE, 0, NoText) : txt \in PyrightTexts}
    \cup {ToolInput(FALSE, NoText, FALSE, 0, NoText)}
    \cup {ToolInput(FALSE, NoText, TRUE, 1, txt) :
             txt \in (PyrightTexts \ {Unreadable}) \cup {NoText}}

StaticAnalysisArtifacts == [ruff : RuffInputs, pyright : PyrightInputs]

(***************************************************************************)
(* collectors/ai_review_collector.py: AIReviewCollector.  A results path   *)
(* is "" for None.                                                         *)
(***************************************************************************)
\* lines 38-51
security_keywords ==
    << <<"i", "n", "j", "e", "c", "t", "i", "o", "n">>,
       <<"s", "e", "c", "u", "r", "i", "t", "y">>,
       <<"v", "u", "l", "n", "e", "r", "a", "b", "i", "l", "i", "t", "y">>,
       <<"x", "s", "s">>,
       <<"c", "s", "r", "f">>,
       <<"s", "e", "c", "r", "e", "t">>,
       <<"c", "r", "e", "d", "e", "n", "t", "i", "a", "l">>,
       <<"a", "u", "t", "h", "e", "n", "t", "i", "c", "a", "t", "i", "o", "n">>,
       <<"a", "u", "t", "h", "o", "r", "i", "z", "a", "t", "i", "o", "n">>,
       <<"s", "q", "l", " ", "i", "n", "j", "e", "c", "t", "i", "o", "n">>,
       <<"c", "o", "m", "m", "a", "n", "d", " ", "i", "n", "j", "e", "c", "t", "i", "o", "n">>,
       <<"h", "a", "r", "d", "c", "o", "d", "e", "d">> >>

\* line 101
high_keywords ==
    << <<"c", "r", "i", "t", "i", "c", "a", "l">>,
       <<"s", "e", "v", "e", "r", "e">>,
       <<"d", "a", "n", "g", "e", "r", "o", "u", "s">>,
       <<"u", "n", "s", "a", "f", "e">> >>

\* line 105
medium_keywords ==
    << <<"w", "a", "r", "n", "i", "n", "g">>,
       <<"c", "a", "u", "t", "i", "o", "n">>,
       <<"c", "o", "n", "s", "i", "d", "e", "r">> >>

AIReviewCollector(review_results, review_results_path) ==
    [kind |-> "AIReviewCollector", category |-> AI_REVIEW,
     weight |-> CollectorWeight(AI_REVIEW),
     review_results |-> review_results,
     review_results_path |-> review_results_path]

\* a MultiModelResult, of which the collector reads consensus_issues
ReviewResult(consensus_issues) == [consensus_issues |-> consensus_issues]

\* JSON values of a results file: a list of items, each a dict that
\* MultiModelResult(**item) accepts, a dict that it rejects (ValidationError)
\* or not a dict; a number
JsonList(items) == [type |-> "list", items |-> items]
JsonNumber == [type |-> "number", items |-> <<>>]
ResultItem(consensus_issues) == [dict |-> TRUE, valid |-> TRUE, consensus_issues |-> consensus_issues]
OtherDictItem == [dict |-> TRUE, valid |-> FALSE, consensus_issues |-> <<>>]
NonDictItem == [dict |-> FALSE, valid |-> FALSE, consensus_issues |-> <<>>]

\* lines 61-69: self.review_results after the optional load from the file
LoadReviewResults(self, a) ==
    IF self.review_results_path /= "" /\ a.file_exists
    THEN LET data == JsonLoad(a.file_text)
             dicts == SelectSeq(data.value.items, LAMBDA item : item.dict)
         IN IF data.raised THEN data
            ELSE IF data.value.type = "number" THEN Raise("TypeError")
            ELSE IF data.value.type = "object" THEN Ok(<<>>)
            ELSE IF \E i \in 1..Len(dicts) : ~dicts[i].valid THEN Raise("ValidationError")
            ELSE Ok([i \in 1..Len(dicts) |-> ReviewResult(dicts[i].consensus_issues)])
    ELSE Ok(self.review_results)

RECURSIVE AllConsensusIssues(_)
\* lines 83-85
AllConsensusIssues(review_results) ==
    IF review_results = <<>> THEN <<>>
    ELSE AllConsensusIssues(Front(review_results))
             \o review_results[Len(review_results)].consensus_issues

\* `any(keyword in issue_lower for keyword in keywords)`
AnyKeywordIn(keywords, issue_lower) ==
    \E k \in 1..Len(keywords) : IsSubstring(keywords[k], issue_lower)

\* lines 94-109 with the severity words looked at before the security words
SeverityHighFirst(issue) ==
    LET issue_lower == Lower(issue)
    IN IF AnyKeywordIn(high_keywords, issue_lower) THEN "high"
       ELSE IF AnyKeywordIn(security_keywords, issue_lower) THEN "security"
       ELSE IF AnyKeywordIn(medium_keywords, issue_lower) THEN "medium"
       ELSE "low"

\* lines 94-109: the class of one issue
Severity(issue) ==
    LET issue_lower == Lower(issue)
    IN IF AnyKeywordIn(security_keywords, issue_lower) THEN "security"
       ELSE IF AnyKeywordIn(high_keywords, issue_lower) THEN "high"
       ELSE IF AnyKeywordIn(medium_keywords, issue_lower) THEN "medium"
       ELSE "low"

NoIssues == [security |-> 0, high |-> 0, medium |-> 0, low |-> 0]

RECURSIVE Categorize(_)
\* lines 88-109: the loop over all_consensus_issues
Categorize(issues) ==
    IF issues = <<>> THEN NoIssues
    ELSE LET acc == Categorize(Front(issues))
             sev == Severity(issues[Len(issues)])
         IN [acc EXCEPT ![sev] = @ + 1]

\* lines 59-132: the body of the try
AIReviewCollectBody(self, a) ==
    LET loaded == LoadReviewResults(self, a)
        review_results == loaded.value
        all_consensus_issues == AllConsensusIssues(review_results)
        n == Categorize(all_consensus_issues)
        deductions == n.security * 50 + n.high * 20 + n.medium * 5 + n.low * 1
    IN IF loaded.raised THEN loaded
       ELSE IF review_results = <<>>
       THEN Ok(CreateResult(self, Ratio(100, 1),
                   ("total_reviews" :> 0) @@ ("warning" :> "No AI review results available"),
                   None))
       ELSE Ok(CreateResult(self, PyMax(Ratio(0, 1), Ratio(100 - deductions, 1)),
                   ("total_reviews" :> Len(review_results))
                       @@ ("total_consensus_issues" :> Len(all_consensus_issues))
                       @@ ("security_issues" :> n.security)
                       @@ ("high_severity" :> n.high)
                       @@ ("medium_severity" :> n.medium)
                       @@ ("low_severity" :> n.low),
                   None))

\* AIReviewCollector.collect, lines 53-140
AIReviewCollect(self, a) ==
    LET body == AIReviewCollectBody(self, a)
    IN ExceptException(body,
           CreateResult(self, Ratio(50, 1), ("error" :> body.exc),
                        "Unexpected error collecting AI review results"))

\* consensus issues of the reviews considered: one that is a security
\* finding, one with a security and a high-severity word, one with a
\* high-severity and a medium-severity word, one with a medium-severity word,
\* one with none
Issues ==
    { <<"S", "Q", "L", " ", "i", "n", "j", "e", "c", "t", "i", "o", "n">>,
       <<"C", "r", "i", "t", "i", "c", "a", "l", " ", "s", "e", "c", "r", "e", "t">>,
       <<"U", "n", "s", "a", "f", "e", " ", "w", "a", "r", "n", "i", "n", "g">>,
       <<"C", "o", "n", "s", "i", "d", "e", "r">>,
       <<"t", "y", "p", "o">> }

MaxIssues == 2

\* review results with up to MaxIssues consensus issues each
ReviewResults == {ReviewResult(issues) : issues \in SeqsUpTo(Issues, MaxIssues)}

\* the review_results argument: None (or []), one result, two results
ReviewResultLists ==
    {<<>>} \cup {<<r>> : r \in ReviewResults}
           \cup {<<r1, r2>> : r1 \in ReviewResults, r2 \in ReviewResults}

\* results given to the constructor and no file, or a results file
AIReviewCollectors ==
    {AIReviewCollector(rs, "") : rs \in ReviewResultLists}
    \cup {AIReviewCollector(<<>>, "reviews.json")}

NoReviewFile == [file_exists |-> FALSE, file_text |-> NoText]

ReviewFileItems ==
    {ResultItem(issues) : issues \in SeqsUpTo(Issues, 1)} \cup {OtherDictItem, NonDictItem}

\* what may be at review_results_path: nothing; a file that is unreadable,
\* not JSON, a JSON number, a JSON object, or a JSON list of up to two items
AIReviewArtifacts ==
    {NoReviewFile}
    \cup {[file_exists |-> TRUE, file_text |-> txt] :
             txt \in {Unreadable, NotJson, JsonText(JsonNumber), JsonText(JsonObject)}
                     \cup {JsonText(JsonList(items)) : items \in SeqsUpTo(ReviewFileItems, 2)}}

(***************************************************************************)
(* One built-in collector and its collect() as a state machine             *)
(***************************************************************************)
\* after the collector's __init__, with the artifacts it will find
InitCollect ==
    /\ \/ coll = TestResultCollector /\ artifact \in JUnitArtifacts
       \/ coll \in CoverageCollectors /\ artifact \in CoberturaArtifacts
       \/ coll \in StaticAnalysisCollectors /\ artifact \in StaticAnalysisArtifacts
       \/ /\ coll \in AIReviewCollectors
          /\ artifact \in IF coll.review_results_path = "" THEN {NoReviewFile}
                          ELSE AIReviewArtifacts
    /\ cpc = "idle"
    /\ outcome = None
    /\ ScoreIdle
    /\ EvalIdle
    /\ RetryIdle
    /\ ConfigIdle
    /\ CommandIdle
    /\ HealthIdle

\* TestResultCollector.collect
CollectTests ==
    /\ cpc = "idle"
    /\ coll.kind = "TestResultCollector"
    /\ outcome' = TestCollect(coll, artifact)
    /\ cpc' = "done"
    /\ UNCHANGED <<coll, artifact, scoreVars, evalVars, retryVars>>
    /\ UNCHANGED <<configVars, commandVars, healthVars>>

\* CoverageCollector.collect
CollectCoverage ==
    /\ cpc = "idle"
    /\ coll.kind = "CoverageCollector"
    /\ outcome' = CoverageCollect(coll, artifact)
    /\ cpc' = "done"
    /\ UNCHANGED <<coll, artifact, scoreVars, evalVars, retryVars>>
    /\ UNCHANGED <<configVars, commandVars, healthVars>>

\* StaticAnalysisCollector.collect
CollectStaticAnalysis ==
    /\ cpc = "idle"
    /\ coll.kind = "StaticAnalysisCollector"
    /\ outcome' = StaticCollect(coll, artifact)
    /\ cpc' = "done"
    /\ UNCHANGED <<coll, artifact, scoreVars, evalVars, retryVars>>
    /\ UNCHANGED <<configVars, commandVars, healthVars>>

\* AIReviewCollector.collect
CollectAIReview ==
    /\ cpc = "idle"
    /\ coll.kind = "AIReviewCollector"
    /\ outcome' = AIReviewCollect(coll, artifact)
    /\ cpc' = "done"
    /\ UNCHANGED <<coll, artifact, scoreVars, evalVars, retryVars>>
    /\ UNCHANGED <<configVars, commandVars, healthVars>>

NextCollect ==
    \/ CollectTests
    \/ CollectCoverage
    \/ CollectStaticAnalysis
    \/ CollectAIReview

SpecCollect == InitCollect /\ [][NextCollect]_vars

(***************************************************************************)
(* semantic/embeddings/client.py: the with_retry decorator.  Times are in  *)
(* milliseconds.  An exception is [cls, call]: its class and the number of *)
(* the invocation that raised it.                                          *)
(***************************************************************************)
\* the base class of an exception class (lines 24-41; httpx.ReadTimeout is
\* one of the subclasses of httpx.TimeoutException)
BaseClass(cls) ==
    CASE cls \in {"RateLimitError", "ServerError", "TimeoutError"} -> "EmbeddingAPIError"
      [] cls \in {"httpx.ReadTimeout", "httpx.ConnectTimeout"} -> "httpx.TimeoutException"
      [] cls \in {"httpx.ConnectError", "httpx.ReadError"} -> "httpx.NetworkError"
      [] cls \in {"httpx.TimeoutException", "httpx.NetworkError"} -> "httpx.TransportError"
      [] cls = "JSONDecodeError" -> "ValueError"
      [] cls = "KeyError" -> "LookupError"
      [] cls = "builtins.TimeoutError" -> "OSError"
      [] OTHER -> "Exception"

RECURSIVE IsSubclass(_, _)
IsSubclass(cls, of) ==
    \/ cls = of
    \/ cls /= "Exception" /\ IsSubclass(BaseClass(cls), of)

\* line 62: the classes of the first except clause
RetryableClasses == {"RateLimitError", "ServerError", "TimeoutError", "httpx.TimeoutException"}

\* the first except clause catching every exception
IsRetryableAnyException(e) == TRUE

\* the first except clause matches e
IsRetryable(e) == \E c \in RetryableClasses : IsSubclass(e.cls, c)

Exc(cls, call) == [cls |-> cls, call |-> call]
\* None, where an exception may stand
NoExc == Exc("", 0)

\* how an invocation, or the wrapper, ends
Ret(v) == [kind |-> "returned", value |-> v, e |-> NoExc]
Rse(e) == [kind |-> "raised", value |-> None, e |-> e]
\* the wrapper has not ended
NotEnded == [kind |-> "running", value |-> None, e |-> NoExc]

MaxRetries == 3

\* the decorator's arguments considered (-1: a loop of no attempt)
MaxRetriesValues == -1..MaxRetries
BaseDelays == {1000, 10}

\* what the wrapped function may return, and the classes it may raise
FuncValues == {"success"}
RaisedClasses ==
    {"RateLimitError", "ServerError", "TimeoutError", "httpx.TimeoutException",
     "httpx.ReadTimeout", "ValueError", "EmbeddingAPIError", "builtins.TimeoutError"}

\* random.uniform(0, 1), in milliseconds: the two ends of the interval
Jitters == {0, 1000}

RECURSIVE Pow2(_)
Pow2(k) == IF k = 0 THEN 1 ELSE 2 * Pow2(k - 1)

\* line 74 with a backoff that grows by base_delay per attempt
DelayLinear(base, att, jitter) == base * (att + 1) + jitter

\* line 74
Delay(base, att, jitter) == base * Pow2(att) + jitter

\* line 66 with the comparison one attempt later
FinalAttemptOneLater(att, m) == att = m + 1

\* line 66: `if attempt == max_retries`
FinalAttempt(att, m) == att = m

\* after the decoration, before the wrapper is called
InitRetry ==
    /\ func = "func"
    /\ requests = <<>>
    /\ max_retries \in MaxRetriesValues
    /\ base_delay \in BaseDelays
    /\ rpc = "idle"
    /\ attempt = 0
    /\ last_exception = NoExc
    /\ call_count = 0
    /\ history = <<>>
    /\ delays = <<>>
    /\ rresult = NotEnded
    /\ ScoreIdle
    /\ EvalIdle
    /\ CollectIdle
    /\ ConfigIdle
    /\ CommandIdle
    /\ HealthIdle

\* the wrapper is called: lines 57-61 up to the first `await func(...)`; with
\* an empty range the loop ends at once, last_exception is None (line 88) and
\* the wrapper returns None
EnterWrapper ==
    /\ rpc = "idle"
    /\ last_exception' = NoExc
    /\ IF max_retries + 1 > 0
       THEN /\ rpc' = "calling"
            /\ attempt' = 0
            /\ call_count' = call_count + 1
            /\ rresult' = rresult
       ELSE /\ rpc' = "returned"
            /\ rresult' = Ret(None)
            /\ UNCHANGED <<attempt, call_count>>
    /\ UNCHANGED <<func, requests, max_retries, base_delay, history, delays>>
    /\ UNCHANGED <<scoreVars, evalVars, collectVars>>
    /\ UNCHANGED <<configVars, commandVars, healthVars>>

\* line 61: the invocation returns v, and the wrapper returns it
WrapperReturns(v) ==
    /\ history' = Append(history, Ret(v))
    /\ rresult' = Ret(v)
    /\ rpc' = "returned"
    /\ UNCHANGED <<attempt, last_exception, call_count, delays>>

\* lines 62-81: the invocation raises e, an exception of the first except
\* clause; on the final attempt it is raised again, otherwise the wrapper
\* goes to sleep
WrapperCatchesRetryable(e) ==
    /\ history' = Append(history, Rse(e))
    /\ last_exception' = e
    /\ IF FinalAttempt(attempt, max_retries)
       THEN /\ rpc' = "raised"
            /\ rresult' = Rse(e)
            /\ delays' = delays
       ELSE /\ rpc' = "sleeping"
            /\ rresult' = rresult
            /\ \E jitter \in Jitters :
                  delays' = Append(delays, Delay(base_delay, attempt, jitter))
    /\ UNCHANGED <<attempt, call_count>>

\* lines 82-85: the invocation raises another Exception e, which is raised
\* again
WrapperCatchesOther(e) ==
    /\ history' = Append(history, Rse(e))
    /\ rresult' = Rse(e)
    /\ rpc' = "raised"
    /\ UNCHANGED <<attempt, last_exception, call_count, delays>>

\* lines 60-85: one pass through the try statement, the invocation ending as
\* r (Ok(value) or Raise(class))
WrapperTry(r) ==
    IF ~r.raised THEN WrapperReturns(r.value)
    ELSE LET e == Exc(r.exc, call_count)
         IN IF IsRetryable(e) THEN WrapperCatchesRetryable(e)
            ELSE WrapperCatchesOther(e)

\* the wrapped function returns
FuncReturns ==
    /\ rpc = "calling"
    /\ func = "func"
    /\ \E v \in FuncValues : WrapperTry(Ok(v))
    /\ UNCHANGED <<func, requests, max_retries, base_delay>>
    /\ UNCHANGED <<scoreVars, evalVars, collectVars>>
    /\ UNCHANGED <<configVars, commandVars, healthVars>>

\* the wrapped function raises an exception of the first except clause
FuncRaisesRetryable ==
    /\ rpc = "calling"
    /\ func = "func"
    /\ \E cls \in RaisedClasses :
          /\ IsRetryable(Exc(cls, call_count))
          /\ WrapperTry(Raise(cls))
    /\ UNCHANGED <<func, requests, max_retries, base_delay>>
    /\ UNCHANGED <<scoreVars, evalVars, collectVars>>
    /\ UNCHANGED <<configVars, commandVars, healthVars>>

\* the wrapped function raises another Exception
FuncRaisesOther ==
    /\ rpc = "calling"
    /\ func = "func"
    /\ \E cls \in RaisedClasses :
          /\ ~IsRetryable(Exc(cls, call_count))
          /\ WrapperTry(Raise(cls))
    /\ UNCHANGED <<func, requests, max_retries, base_delay>>
    /\ UNCHANGED <<scoreVars, evalVars, collectVars>>
    /\ UNCHANGED <<configVars, commandVars, healthVars>>

\* line 81 ends: the next iteration of the loop invokes the function again
SleepEnds ==
    /\ rpc = "sleeping"
    /\ attempt' = attempt + 1
    /\ call_count' = call_count + 1
    /\ rpc' = "calling"
    /\ UNCHANGED <<func, requests, max_retries, base_delay, last_exception, history,
                   delays, rresult>>
    /\ UNCHANGED <<scoreVars, evalVars, collectVars>>
    /\ UNCHANGED <<configVars, commandVars, healthVars>>

NextRetry ==
    \/ EnterWrapper
    \/ FuncReturns
    \/ FuncRaisesRetryable
    \/ FuncRaisesOther
    \/ SleepEnds

SpecRetry == InitRetry /\ [][NextRetry]_vars

\* every invocation of the wrapped function ends and every sleep ends
SpecRetryFair == SpecRetry /\ WF_vars(NextRetry)

(***************************************************************************)
(* semantic/embeddings/client.py: EmbeddingClient._embed_batch, decorated  *)
(* with_retry(max_retries=3, base_delay=1.0)                               *)
(***************************************************************************)
\* line 190: the decorator's arguments
EmbedMaxRetries == 3
EmbedBaseDelay == 1000

\* the body of a response: whether response.json() parses it, whether the
\* object has the key "data", and the items under it; an item is the
\* sequence holding its "embedding", or the empty sequence when it has none
Body(parses, has_data, data) == [parses |-> parses, has_data |-> has_data, data |-> data]
NoBody == Body(FALSE, FALSE, <<>>)

\* how client.post ends: a response, or an exception of class `raises`
Response(status, body) == [raises |-> "", status |-> status, body |-> body]
PostRaises(cls) == [raises |-> cls, status |-> 0, body |-> NoBody]

\* lines 228-229: response.json() and the list of the items' embeddings
RECURSIVE EmbeddingsOf(_)
EmbeddingsOf(data) ==
    IF data = <<>> THEN Ok(<<>>)
    ELSE IF Head(data) = <<>> THEN Raise("KeyError")
    ELSE LET rest == EmbeddingsOf(Tail(data))
         IN IF rest.raised THEN rest ELSE Ok(<<Head(data)[1]>> \o rest.value)

ResponseEmbeddings(body) ==
    IF ~body.parses THEN Raise("JSONDecodeError")
    ELSE IF ~body.has_data THEN Raise("KeyError")
    ELSE EmbeddingsOf(body.data)

\* lines 221-226 with a server error being status 500 only
StatusErrorOnly500(status) ==
    IF status = 429 THEN "RateLimitError"
    ELSE IF status = 500 THEN "ServerError"
    ELSE IF status /= 200 THEN "EmbeddingAPIError"
    ELSE ""

\* lines 221-226: the exception class raised for a status code ("": none)
StatusError(status) ==
    IF status = 429 THEN "RateLimitError"
    ELSE IF 500 <= status /\ status < 600 THEN "ServerError"
    ELSE IF status /= 200 THEN "EmbeddingAPIError"
    ELSE ""

\* lines 207-230: the body of the try statement
EmbedBatchTry(post) ==
    IF post.raises /= "" THEN Raise(post.raises)
    ELSE IF StatusError(post.status) /= "" THEN Raise(StatusError(post.status))
    ELSE ResponseEmbeddings(post.body)

\* lines 232-241: the except clauses, in their order
EmbedBatchExcept(r) ==
    IF ~r.raised THEN r
    ELSE IF IsSubclass(r.exc, "httpx.TimeoutException") THEN Raise("TimeoutError")
    ELSE IF IsSubclass(r.exc, "httpx.ConnectError") THEN Raise("TimeoutError")
    ELSE IF \E c \in {"RateLimitError", "ServerError", "TimeoutError"} : IsSubclass(r.exc, c)
         THEN r
    ELSE Raise("EmbeddingAPIError")

\* lines 206-241: _embed_batch undecorated, for one way client.post may end
EmbedBatch(post) == EmbedBatchExcept(EmbedBatchTry(post))

\* the status codes and bodies considered, and the exceptions of client.post
StatusCodes == {200, 201, 400, 401, 404, 429, 499, 500, 503, 599, 600}
Bodies ==
    {Body(TRUE, TRUE, <<<<"e1">>>>), Body(TRUE, TRUE, <<<<"e1">>, <<"e2">>>>),
     Body(TRUE, TRUE, <<<<"e1">>, <<>>>>), Body(TRUE, FALSE, <<>>), NoBody}
PostExceptions ==
    {"httpx.TimeoutException", "httpx.ReadTimeout", "httpx.ConnectTimeout",
     "httpx.ConnectError", "httpx.ReadError", "ValueError"}
PostOutcomes ==
    {Response(200, b) : b \in Bodies}
        \cup {Response(s, NoBody) : s \in StatusCodes \ {200}}
        \cup {PostRaises(cls) : cls \in PostExceptions}

\* the class exists with the decorated method; _embed_batch has not been
\* called
InitEmbed ==
    /\ func = "_embed_batch"
    /\ requests = <<>>
    /\ max_retries = EmbedMaxRetries
    /\ base_delay = EmbedBaseDelay
    /\ rpc = "idle"
    /\ attempt = 0
    /\ last_exception = NoExc
    /\ call_count = 0
    /\ history = <<>>
    /\ delays = <<>>
    /\ rresult = NotEnded
    /\ ScoreIdle
    /\ EvalIdle
    /\ CollectIdle
    /\ ConfigIdle
    /\ CommandIdle
    /\ HealthIdle

\* one invocation of _embed_batch by the wrapper: its request ends, the
\* function returns or raises, and the wrapper's try statement takes it
EmbedRequest ==
    /\ rpc = "calling"
    /\ func = "_embed_batch"
    /\ \E post \in PostOutcomes :
          /\ requests' = Append(requests, post)
          /\ WrapperTry(EmbedBatch(post))
    /\ UNCHANGED <<func, max_retries, base_delay>>
    /\ UNCHANGED <<scoreVars, evalVars, collectVars>>
    /\ UNCHANGED <<configVars, commandVars, healthVars>>

NextEmbed ==
    \/ EnterWrapper
    \/ EmbedRequest
    \/ SleepEnds

SpecEmbed == InitEmbed /\ [][NextEmbed]_vars

(***************************************************************************)
(* scoring_engine.py: ScoringEngine.from_config_file.  A YAML value that    *)
(* may be a mapping is [exists, null, map]: null for an empty value (None), *)
(* exists false for a file that is not there.  The tolerance is counted in  *)
(* units of 1/RateScale of a percentage point.                              *)
(***************************************************************************)
Node(m) == [exists |-> TRUE, null |-> FALSE, map |-> m]
NullNode == [exists |-> TRUE, null |-> TRUE, map |-> EmptyDict]
NoYamlFile == [exists |-> FALSE, null |-> TRUE, map |-> EmptyDict]

\* the ScoringConfig default tolerance (models.py:196-200)
DefaultTolerance == ("coverage_delta" :> 1000)

\* ScoringConfig(threshold=...): the other fields by their default factories
ScoringConfig(threshold) ==
    [threshold |-> threshold, weights |-> DefaultWeights,
     critical_penalties |-> DefaultPenalties, tolerance |-> DefaultTolerance]

\* ScoringEngine.__init__ (lines 22-36): the engine's config, or ValueError
ScoringEngineInit(cfg) ==
    IF validate_weights(cfg) THEN Ok(cfg) ELSE Raise("ValueError")

\* lines 122-149: open and yaml.safe_load, then the ScoringConfig built from
\* the document; `.get` on None raises AttributeError
ParseConfig(doc) ==
    IF ~doc.exists THEN Raise("FileNotFoundError")
    ELSE IF doc.null THEN Raise("AttributeError")
    ELSE
    LET scoring_data == DictGet(doc.map, "scoring", Node(EmptyDict))
        weights == DictGet(scoring_data.map, "weights", Node(EmptyDict))
    IN IF scoring_data.null THEN Raise("AttributeError")
       ELSE IF weights.null THEN Raise("AttributeError")
       ELSE Ok([threshold |-> DictGet(scoring_data.map, "threshold", 80),
                weights |-> FullWeights(DictGet(weights.map, "tests", 300),
                                        DictGet(weights.map, "coverage", 200),
                                        DictGet(weights.map, "static_analysis", 200),
                                        DictGet(weights.map, "ai_review", 300)),
                critical_penalties |->
                    DictGet(scoring_data.map, "critical_penalties",
                            Node(("security_vulnerability" :> 100)
                                 @@ ("critical_test_failure" :> 50))).map,
                tolerance |->
                    DictGet(scoring_data.map, "tolerance",
                            Node(("coverage_delta" :> 1000))).map])

\* lines 105-151: from_config_file, the engine's config or the exception
FromConfigFile(doc) ==
    LET parsed == ParseConfig(doc)
    IN IF parsed.raised THEN parsed ELSE ScoringEngineInit(parsed.value)

\* the values a reviewer.yaml may give under scoring: each key present or
\* not, the maps whole or in part, weights: with no value
ThresholdEntries == {EmptyDict, ("threshold" :> 80), ("threshold" :> 70)}
WeightsEntries ==
    {EmptyDict,
     ("weights" :> Node(FullWeights(250, 250, 250, 250))),
     ("weights" :> Node(("tests" :> 300))),
     ("weights" :> Node(("tests" :> 500))),
     ("weights" :> Node(EmptyDict)),
     ("weights" :> NullNode)}
PenaltiesEntries ==
    {EmptyDict,
     ("critical_penalties" :> Node(("security_vulnerability" :> 100))),
     ("critical_penalties" :> Node(("critical_test_failure" :> 30))),
     ("critical_penalties" :> Node(("security_vulnerability" :> 60)
                                    @@ ("critical_test_failure" :> 40))),
     ("critical_penalties" :> Node(EmptyDict))}
ToleranceEntries ==
    {EmptyDict,
     ("tolerance" :> Node(("coverage_delta" :> 5000))),
     ("tolerance" :> Node(EmptyDict))}

\* the documents: an empty file, a file without scoring:, scoring: with no
\* value, and scoring: with any of the entries above
YamlDocuments ==
    {NullNode, Node(EmptyDict), Node(("scoring" :> NullNode)),
     Node(("other" :> 1) @@ ("scoring" :> Node(EmptyDict)))}
    \cup {Node(("scoring" :> Node(th @@ w @@ p @@ tol))) :
             th \in ThresholdEntries, w \in WeightsEntries,
             p \in PenaltiesEntries, tol \in ToleranceEntries}

InitConfigFile ==
    /\ yaml_doc \in YamlDocuments \cup {NoYamlFile}
    /\ fpc = "idle"
    /\ from_file = None
    /\ ScoreIdle
    /\ EvalIdle
    /\ CollectIdle
    /\ RetryIdle
    /\ CommandIdle
    /\ HealthIdle

\* ScoringEngine.from_config_file(config_path, collectors)
LoadConfigFile ==
    /\ fpc = "idle"
    /\ from_file' = FromConfigFile(yaml_doc)
    /\ fpc' = "done"
    /\ UNCHANGED <<yaml_doc, scoreVars, evalVars, collectVars, retryVars>>
    /\ UNCHANGED <<commandVars, healthVars>>

NextConfigFile == LoadConfigFile

SpecConfigFile == InitConfigFile /\ [][NextConfigFile]_vars

(***************************************************************************)
(* __main__.py: score_command, for runs that name the JUnit file and the   *)
(* AI review file among the metrics.  An exception that nothing catches    *)
(* ends the process with a traceback and exit code 1 (line 205,            *)
(* sys.exit(main())).  The engine counts scores in whole points, which is  *)
(* exact for the reports considered.                                       *)
(***************************************************************************)
\* the local `config` before line 29: not bound
Unbound == [bound |-> FALSE, value |-> ScoringConfig(0)]
Bound(cfg) == [bound |-> TRUE, value |-> cfg]

\* lines 29-36: [returns, the local config]; with --config the function
\* returns 1 when the file is not there and otherwise binds nothing
LoadConfiguration(a, found) ==
    IF a.config /= ""
    THEN [returns |-> ~found.config_file.exists, config |-> Unbound]
    ELSE [returns |-> FALSE, config |-> Bound(ScoringConfig(a.threshold))]

\* a read of the local `config`
ReadConfig(c) == IF c.bound THEN Ok(c.value) ELSE Raise("UnboundLocalError")

\* lines 42-44 and 75-82: the collector list, the weights read from config
BuildCollectors(a, c) ==
    LET cfg == ReadConfig(c)
        tests == IF a.junit /= ""
                 THEN <<[TestResultCollector EXCEPT
                            !.weight = DictGet(cfg.value.weights, "tests", 300)]>>
                 ELSE <<>>
        ai == IF a.ai_review /= ""
              THEN <<[AIReviewCollector(<<>>, a.ai_review) EXCEPT
                         !.weight = DictGet(cfg.value.weights, "ai_review", 300)]>>
              ELSE <<>>
    IN IF (a.junit /= "" \/ a.ai_review /= "") /\ cfg.raised THEN cfg
       ELSE Ok(tests \o ai)

\* lines 92-95: the engine, which is its config and its collectors
CreateEngine(a, found, c, built) ==
    LET made == IF a.config /= "" THEN FromConfigFile(found.config_file)
                ELSE LET cfg == ReadConfig(c)
                     IN IF cfg.raised THEN cfg ELSE ScoringEngineInit(cfg.value)
    IN IF made.raised THEN made
       ELSE Ok([config |-> made.value, collectors |-> built])

\* the float of a collector's score as the engine's whole points
Points(score) == score.num \div score.den

\* collector.collect() for the collectors of the command, on what is found
\* at their paths
CollectorResult(collector, found) ==
    LET r == IF collector.kind = "TestResultCollector"
             THEN TestCollect(collector, found.junit)
             ELSE AIReviewCollect(collector, found.ai_review)
    IN [r.value EXCEPT !.normalized_score = Points(@)]

\* scoring_engine.py lines 38-103: calculate_score over the results of the
\* collectors
CalculateScore(cfg, rs) ==
    LET bd == BuildBreakdown(rs)
        weighted == WeightedScore(bd, cfg)
        scan == PenaltyScan(bd, cfg)
        final_score == FinalScore(weighted, scan.penalties)
    IN [total_score |-> final_score,
        status |-> Status(final_score, cfg.threshold, scan.blocking_factors),
        threshold |-> cfg.threshold,
        blocking_factors |-> scan.blocking_factors,
        breakdown |-> bd]

\* the local `result` before line 98
NoPRScore ==
    [total_score |-> 0, status |-> "", threshold |-> 0, blocking_factors |-> <<>>,
     breakdown |-> <<>>]

\* lines 129-133
ExitCode(a, result) == IF a.fail_on_error /\ result.status = "FAIL" THEN 1 ELSE 0

\* the command lines considered
Thresholds == {80, 0}
ArgsValues ==
    [config : {"", "reviewer.yaml"}, junit : {"", "junit.xml"},
     ai_review : {"", "reviews.json"}, threshold : Thresholds,
     output : {"", "pr-score.json"}, fail_on_error : BOOLEAN]

\* what may be at the paths: a JUnit file that is missing, malformed, of
\* another root or one <testsuite>; no review file, one that is not JSON, one
\* with a security finding, one with a minor finding
CommandJUnit ==
    {MissingFile, MalformedXml, XmlDocument(Element("html", EmptyDict, <<>>))}
    \cup {XmlDocument(e) : e \in TestSuiteElements}
CommandReviews ==
    {NoReviewFile}
    \cup {[file_exists |-> TRUE, file_text |-> txt] :
             txt \in {NotJson,
                      JsonText(JsonList(<<ResultItem(<<<<"S", "Q", "L", " ", "i", "n", "j",
                                                         "e", "c", "t", "i", "o", "n">>>>)>>)),
                      JsonText(JsonList(<<ResultItem(<<<<"t", "y", "p", "o">>>>)>>))}}
CommandConfigFiles ==
    {NoYamlFile, Node(EmptyDict),
     Node(("scoring" :> Node(("threshold" :> 0))))}

\* the command line is parsed; an option that is not given has nothing at
\* its path
InitCommand ==
    /\ args \in ArgsValues
    /\ inputs \in [config_file : CommandConfigFiles, junit : CommandJUnit,
                    ai_review : CommandReviews, output_writable : BOOLEAN]
    /\ args.config = "" => inputs.config_file = NoYamlFile
    /\ args.junit = "" => inputs.junit = MissingFile
    /\ args.ai_review = "" => inputs.ai_review = NoReviewFile
    /\ args.output = "" => inputs.output_writable
    /\ cmd = "start"
    /\ cmd_engine = None
    /\ cmd_result = NoPRScore
    /\ exit_code = -1
    /\ cmd_error = ""
    /\ yaml_doc = None
    /\ fpc = "unused"
    /\ from_file = None
    /\ ScoreIdle
    /\ EvalIdle
    /\ CollectIdle
    /\ RetryIdle
    /\ HealthIdle

\* lines 29-95: the configuration, the collectors, the engine
CommandSetup ==
    /\ cmd = "start"
    /\ LET loaded_config == LoadConfiguration(args, inputs)
           collectors_built == BuildCollectors(args, loaded_config.config)
           engine_made == CreateEngine(args, inputs, loaded_config.config,
                                       collectors_built.value)
       IN IF loaded_config.returns
          THEN /\ cmd' = "exited" /\ exit_code' = 1
               /\ UNCHANGED <<cmd_engine, cmd_error>>
          ELSE IF collectors_built.raised
          THEN /\ cmd' = "exited" /\ exit_code' = 1
               /\ cmd_error' = collectors_built.exc
               /\ UNCHANGED cmd_engine
          ELSE IF collectors_built.value = <<>>
          THEN /\ cmd' = "exited" /\ exit_code' = 1
               /\ UNCHANGED <<cmd_engine, cmd_error>>
          ELSE IF engine_made.raised
          THEN /\ cmd' = "exited" /\ exit_code' = 1
               /\ cmd_error' = engine_made.exc
               /\ UNCHANGED cmd_engine
          ELSE /\ cmd' = "scoring"
               /\ cmd_engine' = engine_made.value
               /\ UNCHANGED <<exit_code, cmd_error>>
    /\ UNCHANGED <<args, inputs, cmd_result>>
    /\ UNCHANGED <<scoreVars, evalVars, collectVars, retryVars, configVars, healthVars>>

\* line 98: `result = await engine.calculate_score()`
CommandScore ==
    /\ cmd = "scoring"
    /\ cmd_result' =
          CalculateScore(cmd_engine.config,
                         [i \in 1..Len(cmd_engine.collectors) |->
                             CollectorResult(cmd_engine.collectors[i], inputs)])
    /\ cmd' = "report"
    /\ UNCHANGED <<args, inputs, cmd_engine, exit_code, cmd_error>>
    /\ UNCHANGED <<scoreVars, evalVars, collectVars, retryVars, configVars, healthVars>>

\* lines 101-133: the output file, the summary, the exit code
CommandReport ==
    /\ cmd = "report"
    /\ cmd' = "exited"
    /\ IF args.output /= "" /\ ~inputs.output_writable
       THEN exit_code' = 1 /\ cmd_error' = "OSError"
       ELSE exit_code' = ExitCode(args, cmd_result) /\ cmd_error' = cmd_error
    /\ UNCHANGED <<args, inputs, cmd_engine, cmd_result>>
    /\ UNCHANGED <<scoreVars, evalVars, collectVars, retryVars, configVars, healthVars>>

NextCommand ==
    \/ CommandSetup
    \/ CommandScore
    \/ CommandReport

SpecCommand == InitCommand /\ [][NextCommand]_vars

(***************************************************************************)
(* HealthChecker.check_health (health_check.py)                            *)
(***************************************************************************)
\* os.getenv(var) as a condition: the variable is set to a non-empty string
KeyPresent(value) == value \notin {None, ""}

\* lines 88-94: the dictionary _check_api_connectivity starts from
ApiCheckStart ==
    [healthy |-> TRUE, critical |-> FALSE, warnings |-> <<>>, errors |-> <<>>,
     anthropic |-> "", openai |-> ""]

\* what client.get does: it returns a response or raises
GetReturns(status_code) == [kind |-> "response", status_code |-> status_code, exc |-> ""]
GetRaises(exc) == [kind |-> "raised", status_code |-> 0, exc |-> exc]

\* lines 97-119: the Anthropic part of _check_api_connectivity
AnthropicCheck(check, key, got) ==
    IF ~KeyPresent(key) THEN [check EXCEPT !.anthropic = "no_key"]
    ELSE IF got.kind = "response" THEN [check EXCEPT !.anthropic = "reachable"]
    ELSE IF IsSubclass(got.exc, "httpx.TimeoutException")
    THEN [check EXCEPT !.warnings = Append(@, "Anthropic API timeout"),
                       !.anthropic = "timeout"]
    ELSE [check EXCEPT !.warnings = Append(@, "Anthropic API error"),
                       !.anthropic = "error"]

\* lines 122-143: the OpenAI part of _check_api_connectivity
OpenAICheck(check, key, got) ==
    IF ~KeyPresent(key) THEN [check EXCEPT !.openai = "no_key"]
    ELSE IF got.kind = "response"
    THEN IF got.status_code = 200
         THEN [check EXCEPT !.openai = "healthy"]
         ELSE [check EXCEPT !.warnings = Append(@, "OpenAI API returned a status"),
                            !.openai = "error"]
    ELSE IF IsSubclass(got.exc, "httpx.TimeoutException")
    THEN [check EXCEPT !.warnings = Append(@, "OpenAI API timeout"),
                       !.openai = "timeout"]
    ELSE [check EXCEPT !.warnings = Append(@, "OpenAI API error"),
                       !.openai = "error"]

\* lines 146-151: the end of _check_api_connectivity
NoKeysCheck(check, anthropic_key, openai_key) ==
    IF ~KeyPresent(anthropic_key) /\ ~KeyPresent(openai_key)
    THEN [check EXCEPT !.healthy = FALSE, !.critical = TRUE,
                       !.errors = Append(@, "No API keys found")]
    ELSE check

\* lines 153-179: _check_environment
CheckEnvironment(environ) ==
    LET missing_vars ==
            (IF KeyPresent(environ.ANTHROPIC_API_KEY) THEN <<>> ELSE <<"ANTHROPIC_API_KEY">>)
            \o (IF KeyPresent(environ.OPENAI_API_KEY) THEN <<>> ELSE <<"OPENAI_API_KEY">>)
    IN [healthy |-> TRUE,
        warnings |-> IF missing_vars /= <<>>
                     THEN <<"Missing optional environment variables">>
                     ELSE <<>>,
        missing_env_vars |-> missing_vars]

\* lines 190-195
critical_imports == <<"httpx", "pydantic", "anthropic", "openai">>

\* lines 181-206: _check_dependencies
CheckDependencies(importable) ==
    LET missing == SelectSeq(critical_imports, LAMBDA package : package \notin importable)
    IN [healthy |-> missing = <<>>,
        errors |-> missing]

\* lines 69-74
OverallStatus(errors, warnings) ==
    IF errors /= <<>> THEN "unhealthy"
    ELSE IF warnings /= <<>> THEN "degraded"
    ELSE "healthy"

\* lines 40-84: check_health once _check_api_connectivity has returned
CheckHealth(api_check, environ, importable) ==
    LET api_errors == IF ~api_check.healthy /\ api_check.critical
                      THEN api_check.errors ELSE <<>>
        api_warnings == IF ~api_check.healthy /\ ~api_check.critical
                        THEN api_check.warnings ELSE <<>>
        env_check == CheckEnvironment(environ)
        env_warnings == IF ~env_check.healthy THEN env_check.warnings ELSE <<>>
        deps_check == CheckDependencies(importable)
        deps_errors == IF ~deps_check.healthy THEN deps_check.errors ELSE <<>>
        errors == api_errors \o deps_errors
        warnings == api_warnings \o env_warnings
    IN [status |-> OverallStatus(errors, warnings),
        api_connectivity |-> api_check,
        environment |-> env_check,
        dependencies |-> deps_check,
        errors |-> errors,
        warnings |-> warnings]

\* the values of an API key variable: unset, set to nothing, set
KeyValues == {None, "", "sk-key"}

\* the packages that can be imported
Importables == SUBSET {critical_imports[i] : i \in 1..Len(critical_imports)}

\* what the two APIs answer
GetOutcomes ==
    {GetReturns(s) : s \in {200, 400, 401, 500}}
    \cup {GetRaises(e) : e \in {"httpx.ConnectTimeout", "httpx.ConnectError"}}

\* a process about to call check_health
InitHealth ==
    /\ henv \in [ANTHROPIC_API_KEY : KeyValues, OPENAI_API_KEY : KeyValues,
                 importable : Importables]
    /\ hpc = "start"
    /\ health = None
    /\ ScoreIdle /\ EvalIdle /\ CollectIdle /\ RetryIdle /\ ConfigIdle /\ CommandIdle

\* lines 45, 88-119: up to the answer of the Anthropic API, if it is asked
AnthropicProbe ==
    /\ hpc = "start"
    /\ \E got \in GetOutcomes :
           health' = AnthropicCheck(ApiCheckStart, henv.ANTHROPIC_API_KEY, got)
    /\ hpc' = "openai"
    /\ UNCHANGED <<henv, scoreVars, evalVars, collectVars, retryVars, configVars,
                   commandVars>>

\* lines 122-143: up to the answer of the OpenAI API, if it is asked
OpenAIProbe ==
    /\ hpc = "openai"
    /\ \E got \in GetOutcomes :
           health' = OpenAICheck(health, henv.OPENAI_API_KEY, got)
    /\ hpc' = "checks"
    /\ UNCHANGED <<henv, scoreVars, evalVars, collectVars, retryVars, configVars,
                   commandVars>>

\* lines 146-151 and 46-84: the rest of check_health
CheckHealthReturns ==
    /\ hpc = "checks"
    /\ health' = CheckHealth(NoKeysCheck(health, henv.ANTHROPIC_API_KEY,
                                         henv.OPENAI_API_KEY),
                             henv, henv.importable)
    /\ hpc' = "done"
    /\ UNCHANGED <<henv, scoreVars, evalVars, collectVars, retryVars, configVars,
                   commandVars>>

NextHealth == AnthropicProbe \/ OpenAIProbe \/ CheckHealthReturns

SpecHealth == InitHealth /\ [][NextHealth]_vars

(***************************************************************************)
(* All components                                                         *)
(***************************************************************************)
Init ==
    InitScore \/ InitEval \/ InitCollect \/ InitRetry \/ InitEmbed \/ InitConfigFile
    \/ InitCommand \/ InitHealth

Next ==
    NextScore \/ NextEval \/ NextCollect \/ NextRetry \/ NextEmbed \/ NextConfigFile
    \/ NextCommand \/ NextHealth

Spec == Init /\ [][Next]_vars

(***************************************************************************)
(* Properties of the scoring engine (C1 - C7)                              *)
(***************************************************************************)
Done == pc = "done"

\* a collector of category c was configured
Present(c) == \E i \in 1..Len(results) : results[i].category = c

\* the result that stands for category c: the last one gathered for it
LastOf(c) ==
    results[CHOOSE i \in 1..Len(results) :
                /\ results[i].category = c
                /\ \A j \in (i + 1)..Len(results) : results[j].category /= c]

ConfiguredPenalty(name) == DictGet(self_config.critical_penalties, name, 0)
ConfiguredWeight(c) == DictGet(self_config.weights, c, 0)

Factors(text) ==
    {i \in 1..Len(prscore.blocking_factors) : prscore.blocking_factors[i].text = text}

\* the AI-review result carries no error and counts at least one security issue
SecurityTriggered ==
    /\ Present(AI_REVIEW)
    /\ ~Truthy(LastOf(AI_REVIEW).error_message)
    /\ DictGet(LastOf(AI_REVIEW).details, "security_issues", 0) > 0

\* the Tests result carries no error, total > 0 and failed = total
TestTriggered ==
    /\ Present(TESTS)
    /\ ~Truthy(LastOf(TESTS).error_message)
    /\ DictGet(LastOf(TESTS).details, "total", 0) > 0
    /\ DictGet(LastOf(TESTS).details, "failed", 0)
         = DictGet(LastOf(TESTS).details, "total", 0)

SecurityPart == IF SecurityTriggered THEN ConfiguredPenalty("security_vulnerability") ELSE 0
TestPart == IF TestTriggered THEN ConfiguredPenalty("critical_test_failure") ELSE 0

\* C1: the returned status is PASS if and only if total_score >= threshold and
\* blocking_factors is empty; in every other case it is FAIL.
C1_StatusIffThresholdAndNoBlocking ==
    Done =>
        /\ prscore.status \in {"PASS", "FAIL"}
        /\ prscore.threshold = config.threshold
        /\ prscore.status = "PASS" <=>
               /\ prscore.total_score >= config.threshold * One
               /\ Len(prscore.blocking_factors) = 0

\* a score at or above the threshold with a blocking factor has been returned
C1_Witness ==
    /\ Done
    /\ prscore.total_score >= config.threshold * One
    /\ Len(prscore.blocking_factors) > 0
    /\ prscore.status = "FAIL"

\* C2: an error-free AI-review result with security_issues > 0 adds the
\* security_vulnerability penalty exactly once, whatever the count, records one
\* blocking factor naming the count, and the status is FAIL.
C2_SecurityPenaltyOnce ==
    (Done /\ SecurityTriggered) =>
        /\ penalties = ConfiguredPenalty("security_vulnerability") + TestPart
        /\ Cardinality(Factors("Security vulnerability detected")) = 1
        /\ \A i \in Factors("Security vulnerability detected") :
               prscore.blocking_factors[i].args =
                   <<DictGet(LastOf(AI_REVIEW).details, "security_issues", 0)>>
        /\ prscore.status = "FAIL"

\* two security issues counted, the weighted sum alone at or above the threshold
C2_Witness ==
    /\ Done
    /\ SecurityTriggered
    /\ DictGet(LastOf(AI_REVIEW).details, "security_issues", 0) = 2
    /\ ConfiguredPenalty("security_vulnerability") > 0
    /\ weighted_score >= config.threshold * One
    /\ prscore.status = "FAIL"

Contribution(c) ==
    IF Present(c) THEN LastOf(c).normalized_score * ConfiguredWeight(c) ELSE 0

\* the scenario of spec section 8: 90/80/70/100 at weights 0.30/0.20/0.20/0.30
Scenario87 ==
    /\ self_config.weights = FullWeights(300, 200, 200, 300)
    /\ self_config.threshold = 80
    /\ \A c \in MetricCategory : Present(c)
    /\ LastOf(TESTS).normalized_score = 90
    /\ LastOf(COVERAGE).normalized_score = 80
    /\ LastOf(STATIC_ANALYSIS).normalized_score = 70
    /\ LastOf(AI_REVIEW).normalized_score = 100
    /\ ~SecurityTriggered
    /\ ~TestTriggered

Clamp(x, lo, hi) == IF x < lo THEN lo ELSE IF x > hi THEN hi ELSE x

\* C4: total_score = clamp(weighted_score - penalties, 0, 100), so it lies in
\* [0, 100], also for scores above 100 and penalties above the weighted sum.
C4_TotalScoreClamped ==
    Done =>
        /\ prscore.total_score = Clamp(weighted_score - penalties * One, 0, 100 * One)
        /\ prscore.total_score >= 0
        /\ prscore.total_score <= 100 * One

\* a weighted sum above 100 has been clamped
C4_Witness ==
    /\ Done
    /\ weighted_score - penalties * One > 100 * One
    /\ prscore.total_score = 100 * One

WeightSum ==
    DictGet(config.weights, TESTS, 0) + DictGet(config.weights, COVERAGE, 0)
    + DictGet(config.weights, STATIC_ANALYSIS, 0) + DictGet(config.weights, AI_REVIEW, 0)

\* C5 as stated: construction succeeds if and only if the weights sum to 1.0
\* within the 0.01 tolerance, the bounds 0.99 and 1.01 included.
C5_AsStated_BoundsIncluded ==
    engine /= "none" =>
        (engine = "constructed" <=> Abs(WeightSum - One) <= WeightTolerance)

\* C5 amended: construction succeeds if and only if the sum differs from 1.0 by
\* strictly less than 0.01 (a sum of exactly 0.99 or 1.01 raises ValueError);
\* a rejected configuration is never used and the weights are kept as given.
C5_ConstructIffStrictlyWithinTolerance ==
    /\ engine /= "none" =>
           /\ engine = "constructed" <=> Abs(WeightSum - One) < WeightTolerance
           /\ engine = "ValueError" <=> Abs(WeightSum - One) >= WeightTolerance
    /\ engine = "constructed" => self_config = config
    /\ engine /= "constructed" => (pc = "idle" /\ prscore = None /\ self_config = None)

\* a sum exactly at the bound has been rejected
C5_Witness ==
    /\ engine = "ValueError"
    /\ Abs(WeightSum - One) = WeightTolerance

\* C6: an error-free Tests result with total > 0 and failed = total adds the
\* critical_test_failure penalty once and one 'All tests failing' factor; with
\* failed < total or total = 0 it adds neither.
C6_AllTestsFailingPenalty ==
    Done =>
        /\ TestTriggered =>
               /\ penalties = ConfiguredPenalty("critical_test_failure") + SecurityPart
               /\ Cardinality(Factors("All tests failing")) = 1
        /\ ( /\ Present(TESTS)
             /\ ~Truthy(LastOf(TESTS).error_message)
             /\ \/ DictGet(LastOf(TESTS).details, "total", 0) = 0
                \/ DictGet(LastOf(TESTS).details, "failed", 0)
                     < DictGet(LastOf(TESTS).details, "total", 0) ) =>
               /\ penalties = SecurityPart
               /\ Factors("All tests failing") = {}

\* every test failed and the penalty was charged
C6_Witness ==
    /\ Done
    /\ TestTriggered
    /\ ConfiguredPenalty("critical_test_failure") > 0
    /\ penalties = ConfiguredPenalty("critical_test_failure")
    /\ Factors("All tests failing") /= {}

HasError(c) == Present(c) /\ Truthy(LastOf(c).error_message)

\* C7: a category whose result carries an error_message gets no penalty check:
\* no penalty and no blocking factor, whatever its details hold.
C7_NoPenaltyCheckOnError ==
    Done =>
        /\ HasError(AI_REVIEW) => Factors("Security vulnerability detected") = {}
        /\ HasError(TESTS) => Factors("All tests failing") = {}
        /\ penalties = SecurityPart + TestPart
        /\ (\A c \in MetricCategory : Present(c) => HasError(c)) =>
               (penalties = 0 /\ prscore.blocking_factors = <<>>)

\* an AI-review result with an error and counted security issues added nothing
C7_Witness ==
    /\ Done
    /\ HasError(AI_REVIEW)
    /\ DictGet(LastOf(AI_REVIEW).details, "security_issues", 0) > 0
    /\ penalties = 0
    /\ prscore.blocking_factors = <<>>

(***************************************************************************)
(* Properties of the multi-model evaluator (C8 - C10)                      *)
(***************************************************************************)
EvalDone == epc = "done"

\* the number of models whose result lists the issue among its matched_issues
FoundBy(issue) ==
    Cardinality({i \in 1..Len(mm_result.model_results) :
                    issue \in Range(mm_result.model_results[i].matched_issues)})

\* C8: an issue found by exactly N \div 2 + 1 models is in consensus_issues; one
\* found by all N models is in consensus_issues and unanimous_issues; for
\* N >= 3, one found by exactly one model is in any_model_issues and not in
\* consensus_issues -- for every expected_issues list.
C8_ConsensusClassification ==
    EvalDone =>
        LET N == Len(models)
        IN \A issue \in Range(test_case.expected_issues) :
              /\ FoundBy(issue) = (N \div 2) + 1 =>
                     issue \in Range(mm_result.consensus_issues)
              /\ FoundBy(issue) = N =>
                     /\ issue \in Range(mm_result.consensus_issues)
                     /\ issue \in Range(mm_result.unanimous_issues)
              /\ (N >= 3 /\ FoundBy(issue) = 1) =>
                     /\ issue \in Range(mm_result.any_model_issues)
                     /\ issue \notin Range(mm_result.consensus_issues)

\* C9: consensus_passed is true if and only if every expected issue, compared
\* case-insensitively, is an issue found by at least total_models \div 2 + 1
\* models.
C9_ConsensusPassedIffMajorityFoundAll ==
    EvalDone =>
        (mm_result.consensus_passed <=>
            \A e \in Range(test_case.expected_issues) :
                \E c \in Range(test_case.expected_issues) :
                    /\ Lower(c) = Lower(e)
                    /\ FoundBy(c) >= (mm_result.total_models \div 2) + 1)

\* C10: every ModelReviewResult, on the normal and on the exception path, has
\* passed true if and only if missed_issues is empty.
C10_PassedIffNothingMissed ==
    \A i \in (1..Len(model_results)) \ epending :
        model_results[i].passed <=> model_results[i].missed_issues = <<>>

(***************************************************************************)
(* Properties of the per-model task and of the two fan-outs (C11, C12)     *)
(***************************************************************************)
\* the tasks of evaluate_async that have completed
Completed == (1..Len(model_results)) \ epending

\* `issue.lower() in review_text.lower()`, stated on the gateway's answer
Mentions(text, issue) == IsSubstring(Lower(issue), Lower(text))

\* C11: when the gateway call of a model raises, the task of that model does
\* not raise: it completes with a result that has passed = False, no matched
\* issue, every expected issue missed, review_text "Error: <exception>" and
\* latency_ms 0; evaluate_async still returns a MultiModelResult, in which the
\* result of every model whose call returned is determined by that model's
\* own answer alone (the issues its text mentions, its latency).
C11_GatewayFailureIsAFailingResult ==
    /\ \A i \in Completed :
          gateway[i].kind = "raised" =>
              /\ model_results[i].passed = FALSE
              /\ model_results[i].matched_issues = <<>>
              /\ model_results[i].missed_issues = test_case.expected_issues
              /\ model_results[i].review_text = <<"Error: ">> \o gateway[i].e
              /\ model_results[i].latency_ms = 0
              /\ model_results[i].model_name = models[i].name
    /\ EvalDone =>
          /\ Len(mm_result.model_results) = Len(models)
          /\ \A j \in 1..Len(models) :
                gateway[j].kind = "returned" =>
                    LET r == mm_result.model_results[j]
                        exp == test_case.expected_issues
                    IN /\ r.review_text = gateway[j].review_text
                       /\ r.latency_ms = gateway[j].latency_ms
                       /\ r.model_name = models[j].name
                       /\ r.matched_issues =
                              SelectSeq(exp, LAMBDA x : Mentions(gateway[j].review_text, x))
                       /\ r.missed_issues =
                              SelectSeq(exp, LAMBDA x : ~Mentions(gateway[j].review_text, x))
                       /\ r.passed = (r.missed_issues = <<>>)

\* one model's call raised, another model passed, and the test case expects
\* something
C11_Witness ==
    /\ EvalDone
    /\ test_case.expected_issues /= <<>>
    /\ \E i, j \in 1..Len(models) :
          /\ gateway[i].kind = "raised"
          /\ gateway[j].kind = "returned"
          /\ mm_result.model_results[j].passed

\* C12: both fan-outs are full joins.  calculate_score has returned (or has
\* exited with an exception) only when every collect() task it launched has
\* completed, and evaluate_async has returned only when every per-model task
\* has completed, also when some task failed; model_results then holds one
\* result per roster entry, in roster order, and total_models is the roster
\* size.
C12_FanOutsAreFullJoins ==
    /\ pc \in {"done", "raised"} => pending = {}
    /\ EvalDone =>
          /\ epending = {}
          /\ Len(mm_result.model_results) = Len(models)
          /\ mm_result.total_models = Len(models)
          /\ \A i \in 1..Len(models) :
                /\ mm_result.model_results[i].model_name = models[i].name
                /\ mm_result.model_results[i].model_id = models[i].model_id

(***************************************************************************)
(* Properties of the built-in collectors (C13 - C19)                       *)
(***************************************************************************)
\* collect() has ended
Collected == cpc = "done"

\* collect() has returned a ScoringResult
CollectReturned == Collected /\ ~outcome.raised

IsTests == cpc /= "unused" /\ coll.kind = "TestResultCollector"
IsCoverage == cpc /= "unused" /\ coll.kind = "CoverageCollector"
IsStatic == cpc /= "unused" /\ coll.kind = "StaticAnalysisCollector"
IsAIReview == cpc /= "unused" /\ coll.kind = "AIReviewCollector"

\* the category each collector class reports on
OwnCategory ==
    CASE coll.kind = "TestResultCollector" -> TESTS
      [] coll.kind = "CoverageCollector" -> COVERAGE
      [] coll.kind = "StaticAnalysisCollector" -> STATIC_ANALYSIS
      [] coll.kind = "AIReviewCollector" -> AI_REVIEW

\* the score is the whole number k
ScoreIs(k) == outcome.value.normalized_score = Literal(k, outcome.value.normalized_score)

ErrorSet == outcome.value.error_message /= None

\* C13: collect() of each of the four built-in collectors never raises: for
\* every state of its artifact (missing, unreadable, malformed, of an
\* unexpected shape, with non-numeric attributes, valid) and every outcome of
\* its subprocesses it ends by returning a ScoringResult of its own category.
C13_CollectNeverRaises ==
    Collected =>
        /\ ~outcome.raised
        /\ outcome.value.category = OwnCategory

\* an exception reached the last handler of collect(): an unreadable file, a
\* non-numeric attribute, an error count that is not a number, a rejected item
C13_Witness ==
    /\ CollectReturned
    /\ \/ IsTests /\ artifact.state = "unreadable"
       \/ IsCoverage /\ artifact.state = "parsed" /\ artifact.root.tag = "coverage"
              /\ "line-rate" \in DOMAIN artifact.root.attrs
              /\ artifact.root.attrs["line-rate"] = <<"n", "/", "a">>
    /\ ErrorSet

\* the artifact the collector reads is malformed: XML that does not parse or
\* has another root element than the format's, JSON that does not parse or
\* whose top level is not of the expected type
MalformedArtifact ==
    \/ /\ IsTests
       /\ \/ artifact.state = "malformed"
          \/ artifact.state = "parsed" /\ artifact.root.tag \notin {"testsuites", "testsuite"}
    \/ /\ IsCoverage
       /\ \/ artifact.state = "malformed"
          \/ artifact.state = "parsed" /\ artifact.root.tag /= "coverage"
    \/ /\ IsStatic
       /\ \/ /\ coll.ruff_results_path /= ""
             /\ artifact.ruff.file_exists
             /\ artifact.ruff.file_text \in {NotJson, JsonText(JsonObject)}
          \/ /\ coll.pyright_results_path /= ""
             /\ artifact.pyright.file_exists
             /\ artifact.pyright.file_text \in {NotJson, JsonText(JsonArray(0))}
    \/ /\ IsAIReview
       /\ coll.review_results_path /= ""
       /\ artifact.file_exists
       /\ artifact.file_text \in {NotJson, JsonText(JsonNumber), JsonText(JsonObject)}

\* C14: a malformed artifact given to any of the four collectors yields a
\* ScoringResult whose error_message is set and whose score is the neutral
\* 50 or 0: it is never reported as an error-free result.
C14_MalformedArtifactIsAnError ==
    (Collected /\ MalformedArtifact) =>
        /\ ~outcome.raised
        /\ ErrorSet
        /\ ScoreIs(50) \/ ScoreIs(0)

(***************************************************************************)
(* TestResultCollector (C15)                                               *)
(***************************************************************************)
\* the <testsuite> elements a JUnit document counts: the root itself, or the
\* members of a <testsuites> root
CountedSuites ==
    IF artifact.root.tag = "testsuite" THEN <<artifact.root>>
    ELSE SelectSeq(artifact.root.children, LAMBDA ch : ch.tag = "testsuite")

\* the number an attribute stands for (0 when the element does not carry it)
AttrNumber(element, name) == IntAttr(element, name).value

RECURSIVE SumAttr(_, _)
\* the sum of an attribute over some of the counted suites
SumAttr(indexes, name) ==
    IF indexes = {} THEN 0
    ELSE LET i == CHOOSE j \in indexes : TRUE
         IN AttrNumber(CountedSuites[i], name) + SumAttr(indexes \ {i}, name)

Total(name) == SumAttr(1..Len(CountedSuites), name)

\* a JUnit document all of whose counts are numbers
JUnitDocument ==
    /\ IsTests
    /\ artifact.state = "parsed"
    /\ artifact.root.tag \in {"testsuites", "testsuite"}
    /\ \A i \in 1..Len(CountedSuites) :
          \A name \in {"tests", "failures", "errors", "skipped"} :
              ~IntAttr(CountedSuites[i], name).raised

InRange(x) == ~FloatLess(x, Literal(0, x)) /\ ~FloatLess(Literal(100, x), x)

\* C16: every ScoringResult returned by one of the four built-in collectors
\* has 0 <= normalized_score <= 100, for every artifact the collector
\* accepts: any integer tests / failures / errors values, any line-rate and
\* baseline, any error counts, any number of consensus issues.
C16_NormalizedScoreWithin0And100 ==
    CollectReturned => InRange(outcome.value.normalized_score)

(***************************************************************************)
(* AIReviewCollector (C17)                                                 *)
(***************************************************************************)
\* the places of the consensus issues in the results supplied: <<r, i>> is
\* the i-th consensus issue of the r-th result
IssuePlaces ==
    {<<r, i>> \in (1..Len(coll.review_results)) \X (1..MaxIssues) :
        i <= Len(coll.review_results[r].consensus_issues)}

IssueAt(pl) == coll.review_results[pl[1]].consensus_issues[pl[2]]

\* some keyword of the list occurs in the issue, case ignored
HasKeyword(keywords, issue) ==
    \E kw \in Range(keywords) : IsSubstring(kw, Lower(issue))

IsSecurityIssue(x) == HasKeyword(security_keywords, x)
IsHighIssue(x) == ~IsSecurityIssue(x) /\ HasKeyword(high_keywords, x)
IsMediumIssue(x) ==
    ~IsSecurityIssue(x) /\ ~HasKeyword(high_keywords, x) /\ HasKeyword(medium_keywords, x)
IsLowIssue(x) ==
    ~IsSecurityIssue(x) /\ ~HasKeyword(high_keywords, x) /\ ~HasKeyword(medium_keywords, x)

C18_StaticAnalysisScore ==
    (Collected /\ IsStatic /\ ~outcome.raised /\ ~ErrorSet) =>
        LET n == outcome.value.details["total_errors"]
            score == outcome.value.normalized_score
        IN /\ n = 0 => ScoreIs(100)
           /\ (1 <= n /\ n <= 5) => ScoreIs(80)
           /\ n > 5 =>
                 /\ FloatLess(score, Double80)
                 /\ FloatLess(Double0, score)
                 /\ \A m \in DOMAIN DecayTable :
                       m < n => FloatLess(score, NormalizeErrors(m))

(***************************************************************************)
(* CoverageCollector (C19)                                                 *)
(***************************************************************************)
\* a document whose root gives numbers (or nothing) for its rates
CoberturaDocument ==
    /\ IsCoverage
    /\ artifact.state = "parsed"
    /\ ~FloatAttr(artifact.root, "line-rate").raised
    /\ ~FloatAttr(artifact.root, "branch-rate").raised

RetryEnded == rpc \in {"returned", "raised"}

\* the invocation ended with one of the errors that are retried
RetryableFailure(h) ==
    /\ h.kind = "raised"
    /\ h.e.cls \in {"RateLimitError", "ServerError", "TimeoutError",
                    "httpx.TimeoutException", "httpx.ReadTimeout"}

\* what holds of the wrapper at every moment, for max_retries >= 0
RetryDiscipline ==
    (rpc /= "unused" /\ max_retries >= 0) =>
        /\ call_count <= max_retries + 1
        /\ Len(history) <= call_count
        \* the function is invoked again only after a retryable failure
        /\ \A i \in 1..Len(history) : i < call_count => RetryableFailure(history[i])
        /\ RetryEnded =>
              LET last == history[call_count]
              IN /\ 1 <= call_count
                 /\ Len(history) = call_count
                 /\ last.kind = "returned" => rresult = Ret(last.value)
                 /\ last.kind = "raised" => rresult = Rse(last.e)
                 /\ RetryableFailure(last) => call_count = max_retries + 1

\* C20: with_retry(max_retries = m), m >= 0: the wrapped function is invoked
\* until its first success or until m + 1 invocations have failed with a
\* retryable error; on a success the wrapper returns that invocation's result
\* and never invokes the function again; when all m + 1 invocations fail the
\* exception of the last one is raised; the number of invocations is between
\* 1 and m + 1, and the wrapper always terminates.
C20_RetryUntilSuccessOrExhausted ==
    /\ []RetryDiscipline
    /\ [][RetryEnded => call_count' = call_count]_vars
    /\ <>RetryEnded

\* a success on the third invocation, after two retryable failures
C20_Witness ==
    /\ rpc = "returned"
    /\ max_retries = 3
    /\ call_count = 3
    /\ rresult = Ret("success")

(***************************************************************************)
(* Properties of with_retry: other exceptions and the backoff (C21, C22)   *)
(***************************************************************************)
\* the invocation ended with an exception that is not of a retried kind
OtherFailure(h) == h.kind = "raised" /\ ~RetryableFailure(h)

\* some invocation has ended with an exception that is not of a retried kind
OtherFailureSeen == \E i \in 1..Len(history) : OtherFailure(history[i])

\* C21: when the wrapped function raises an exception that is not of a
\* retryable kind, on whatever attempt and for whatever max_retries, the
\* wrapper raises that same exception at once: the failing invocation is the
\* last one (the only one when it is the first attempt), no sleep follows it
\* and the function is not invoked again.
C21_OtherExceptionRaisedAtOnce ==
    /\ [](\A i \in 1..Len(history) :
            OtherFailure(history[i]) =>
                /\ i = Len(history)
                /\ call_count = i
                /\ rpc = "raised"
                /\ rresult = Rse(history[i].e)
                /\ history[i].e.call = i
                /\ Len(delays) = i - 1)
    /\ [][OtherFailureSeen =>
              /\ call_count' = call_count
              /\ history' = history
              /\ delays' = delays
              /\ rresult' = rresult]_vars

\* a ValueError on the second attempt, after one retryable failure and one
\* sleep, with a retry still allowed
C21_Witness ==
    /\ rpc = "raised"
    /\ max_retries = 3
    /\ call_count = 2
    /\ Len(history) = 2
    /\ history[2] = Rse(Exc("ValueError", 2))
    /\ rresult = Rse(Exc("ValueError", 2))
    /\ Len(delays) = 1

\* one second, the upper end of the jitter, in milliseconds
Second == 1000

\* C22: there is exactly one sleep between two consecutive attempts and none
\* after the final failed attempt or after a success, so that k attempts make
\* k - 1 sleeps; the sleep after failed attempt i (from 0) lasts
\* base_delay * 2^i plus a jitter between 0 and 1 second; with base_delay 1
\* and max_retries 3 a call that always fails sleeps three times, for
\* delays in [1,2], [2,3] and [4,5].
C22_ExponentialBackoff ==
    (rpc \notin {"unused", "idle"} /\ max_retries >= 0) =>
        /\ rpc = "sleeping" => Len(delays) = call_count
        /\ rpc /= "sleeping" => Len(delays) = call_count - 1
        /\ \A i \in 1..Len(delays) :
              /\ RetryableFailure(history[i])
              /\ base_delay * 2^(i - 1) <= delays[i]
              /\ delays[i] <= base_delay * 2^(i - 1) + Second
        /\ (base_delay = Second /\ max_retries = 3 /\ rpc = "raised"
              /\ RetryableFailure(history[Len(history)])) =>
              /\ call_count = 4
              /\ Len(delays) = 3
              /\ delays[1] \in 1000..2000
              /\ delays[2] \in 2000..3000
              /\ delays[3] \in 4000..5000

\* base_delay 1, max_retries 3: four failed attempts and three sleeps, the
\* third one of five seconds
C22_Witness ==
    /\ rpc = "raised"
    /\ max_retries = 3
    /\ base_delay = 1000
    /\ call_count = 4
    /\ Len(delays) = 3
    /\ delays[3] = 5000

(***************************************************************************)
(* Properties of EmbeddingClient._embed_batch (C23)                        *)
(***************************************************************************)
\* client.post ended with a request timeout or a connection error
TimedOutOrNoConnection(post) ==
    post.raises \in {"httpx.TimeoutException", "httpx.ReadTimeout",
                     "httpx.ConnectTimeout", "httpx.ConnectError"}

RateLimited(post) == post.raises = "" /\ post.status = 429
ServerFailed(post) == post.raises = "" /\ post.status \in 500..599

\* a response with another status than 200, 429 and 5xx
OtherStatus(post) ==
    /\ post.raises = ""
    /\ post.status /= 200
    /\ ~RateLimited(post)
    /\ ~ServerFailed(post)

\* a 200 response whose body carries one embedding per item
Embedded(post) ==
    /\ post.raises = ""
    /\ post.status = 200
    /\ post.body.parses
    /\ post.body.has_data
    /\ \A k \in 1..Len(post.body.data) : post.body.data[k] /= <<>>

\* what is retried, and the error it is turned into
Retried(post) == RateLimited(post) \/ ServerFailed(post) \/ TimedOutOrNoConnection(post)
RetriedAs(post) ==
    IF RateLimited(post) THEN "RateLimitError"
    ELSE IF ServerFailed(post) THEN "ServerError"
    ELSE "TimeoutError"

EmbedDiscipline ==
    func = "_embed_batch" =>
        /\ Len(requests) = Len(history)
        /\ Len(requests) <= call_count
        /\ call_count <= 4
        /\ \A i \in 1..Len(requests) :
              LET post == requests[i]
                  h == history[i]
                  last == /\ i = Len(requests)
                          /\ call_count = i
                          /\ rresult = h
              IN /\ i < call_count => Retried(post)
                 /\ Retried(post) =>
                       /\ h = Rse(Exc(RetriedAs(post), i))
                       /\ i < 4 => \/ call_count > i
                                   \/ rpc = "sleeping" /\ call_count = i
                       /\ i = 4 => last /\ rpc = "raised"
                 /\ OtherStatus(post) =>
                       /\ h = Rse(Exc("EmbeddingAPIError", i))
                       /\ last
                       /\ rpc = "raised"
                 /\ Embedded(post) =>
                       /\ h = Ret([k \in 1..Len(post.body.data) |-> post.body.data[k][1]])
                       /\ last
                       /\ rpc = "returned"

\* C23: _embed_batch turns an HTTP 429 response, an HTTP 5xx response, a
\* request timeout and a connection error into a retryable error, which is
\* retried: at most 3 retries, so at most 4 requests, and the last error is
\* raised when all fail; any other status than 200 raises an
\* EmbeddingAPIError with no retry (after exactly one request when it answers
\* the first one); a 200 response returns its embeddings; and no request
\* follows the end of the call.
C23_EmbedBatchRetries ==
    /\ []EmbedDiscipline
    /\ [][RetryEnded => requests' = requests]_vars

\* four requests: rate limited, a server error, a timeout, no connection; the
\* last error is raised
C23_Witness ==
    /\ func = "_embed_batch"
    /\ rpc = "raised"
    /\ Len(requests) = 4
    /\ RateLimited(requests[1])
    /\ requests[2] = Response(503, NoBody)
    /\ requests[3] = PostRaises("httpx.TimeoutException")
    /\ requests[4] = PostRaises("httpx.ConnectError")
    /\ rresult = Rse(Exc("TimeoutError", 4))

(***************************************************************************)
(* Properties of ScoringEngine.from_config_file (C24)                      *)
(***************************************************************************)
\* the mapping under scoring:, empty when the document gives none
ScoringOf(doc) ==
    IF doc.null \/ "scoring" \notin DOMAIN doc.map \/ doc.map["scoring"].null
    THEN EmptyDict
    ELSE doc.map["scoring"].map

\* the mapping under scoring.<key>, empty when the document gives none
SectionOf(doc, key) ==
    IF key \in DOMAIN ScoringOf(doc) /\ ~ScoringOf(doc)[key].null
    THEN ScoringOf(doc)[key].map
    ELSE EmptyDict

\* the weights the document asks for, each omitted one by its default
WeightsAsked(doc) ==
    [c \in MetricCategory |-> DictGet(SectionOf(doc, "weights"), c, DefaultWeights[c])]

\* C24: from_config_file accepts a YAML document in which every key under
\* scoring: is optional, and each omitted key falls back individually to
\* its documented default: threshold 80, the four weights 0.30 / 0.20 /
\* 0.20 / 0.30, the two critical penalties 100 and 50, the tolerance
\* coverage_delta 0.1 (read for documents whose weights, so completed,
\* sum to 1).
C24_OmittedKeysFallBack ==
    (fpc = "done" /\ yaml_doc.exists
        /\ Abs(SumValues(WeightsAsked(yaml_doc)) - One) < WeightTolerance) =>
        /\ ~from_file.raised
        /\ LET cfg == from_file.value
           IN /\ cfg.threshold = DictGet(ScoringOf(yaml_doc), "threshold", DefaultThreshold)
              /\ cfg.weights = WeightsAsked(yaml_doc)
              /\ \A name \in DOMAIN DefaultPenalties :
                    /\ name \in DOMAIN cfg.critical_penalties
                    /\ cfg.critical_penalties[name] =
                          DictGet(SectionOf(yaml_doc, "critical_penalties"), name,
                                  DefaultPenalties[name])
              /\ \A name \in DOMAIN DefaultTolerance :
                    /\ name \in DOMAIN cfg.tolerance
                    /\ cfg.tolerance[name] =
                          DictGet(SectionOf(yaml_doc, "tolerance"), name,
                                  DefaultTolerance[name])

(***************************************************************************)
(* Properties of score_command (C25, C29)                                  *)
(***************************************************************************)
\* the command has computed the PRScore
Scored == cmd \in {"report", "exited"} /\ cmd_result.status \in {"PASS", "FAIL"}

\* C25: the exit code of the score command is 1 exactly when the run was
\* asked to fail on a threshold miss (--fail-on-error) and the final status
\* is FAIL; every other run, with or without --config, completes the
\* scoring and exits with code 0.
C25_ExitCode ==
    cmd = "exited" =>
        /\ exit_code = 1 <=> (args.fail_on_error /\ Scored /\ cmd_result.status = "FAIL")
        /\ exit_code /= 1 => (exit_code = 0 /\ Scored)

\* the JUnit file of the run is a <testsuite> report with total > 0 in which
\* no test passed: failures + errors = total
NoTestPassed ==
    /\ args.junit /= ""
    /\ inputs.junit.state = "parsed"
    /\ inputs.junit.root.tag = "testsuite"
    /\ \A name \in {"tests", "failures", "errors", "skipped"} :
          ~IntAttr(inputs.junit.root, name).raised
    /\ AttrNumber(inputs.junit.root, "tests") > 0
    /\ AttrNumber(inputs.junit.root, "failures") + AttrNumber(inputs.junit.root, "errors")
          = AttrNumber(inputs.junit.root, "tests")

\* C29: end to end, for every JUnit report with total > 0 in which no test
\* passed, scoring the TestResultCollector's result with the engine applies
\* the critical_test_failure penalty (50 by default, which leaves a total
\* score of 0) and records the 'All tests failing' blocking factor, so that
\* the status is FAIL.
C29_NoTestPassedIsBlocking ==
    (Scored /\ NoTestPassed) =>
        /\ \E i \in 1..Len(cmd_result.blocking_factors) :
              cmd_result.blocking_factors[i].text = "All tests failing"
        /\ cmd_result.total_score = 0
        /\ cmd_result.status = "FAIL"

(***************************************************************************)
(* Properties of evaluate_async: its counts, its three lists and the order *)
(* of completion (C26 - C28)                                               *)
(***************************************************************************)
\* the per-model results of the returned MultiModelResult with passed = true
PassedResults == {i \in 1..Len(mm_result.model_results) : mm_result.model_results[i].passed}

\* C26: in every MultiModelResult, if at least total_models // 2 + 1 models
\* passed individually then consensus_passed is true; models_passed is the
\* number of per-model results with passed = true and lies between 0 and
\* total_models.
C26_MajorityPassedGivesConsensus ==
    EvalDone =>
        /\ mm_result.models_passed = Cardinality(PassedResults)
        /\ 0 <= mm_result.models_passed
        /\ mm_result.models_passed <= mm_result.total_models
        /\ mm_result.models_passed >= (mm_result.total_models \div 2) + 1
              => mm_result.consensus_passed

\* two of three models passed on two expected issues, the third missed one
C26_Witness ==
    /\ EvalDone
    /\ mm_result.total_models = 3
    /\ mm_result.models_passed = 2
    /\ Len(test_case.expected_issues) = 2
    /\ mm_result.consensus_passed
    /\ Len(mm_result.unanimous_issues) = 1

\* the list holds no string twice
NoRepeats(list) == \A i, j \in 1..Len(list) : list[i] = list[j] => i = j

\* the strings of a list
Entries(list) == {list[i] : i \in 1..Len(list)}

\* C27: in every MultiModelResult unanimous_issues is a subset of
\* consensus_issues, consensus_issues is a subset of any_model_issues,
\* every entry of any_model_issues is a literal entry of
\* test_case.expected_issues, and none of the three lists holds the same
\* string twice.
C27_IssueListsNested ==
    EvalDone =>
        /\ Entries(mm_result.unanimous_issues) \subseteq Entries(mm_result.consensus_issues)
        /\ Entries(mm_result.consensus_issues) \subseteq Entries(mm_result.any_model_issues)
        /\ Entries(mm_result.any_model_issues) \subseteq Entries(test_case.expected_issues)
        /\ NoRepeats(mm_result.unanimous_issues)
        /\ NoRepeats(mm_result.consensus_issues)
        /\ NoRepeats(mm_result.any_model_issues)

\* three models: one issue found by all, another by two of them
C27_Witness ==
    /\ EvalDone
    /\ mm_result.total_models = 3
    /\ Len(mm_result.unanimous_issues) = 1
    /\ Len(mm_result.consensus_issues) = 2
    /\ Len(mm_result.any_model_issues) = 2
    /\ Len(mm_result.model_results[1].matched_issues) = 2
    /\ Len(mm_result.model_results[3].matched_issues) = 1

\* the result of model i's task, from what the gateway gave that task
TaskResult(i) ==
    IF gateway[i].kind = "returned"
    THEN EvaluateReturned(models[i], test_case, gateway[i].review_text,
                          gateway[i].latency_ms)
    ELSE EvaluateRaised(models[i], test_case, gateway[i].e)

\* C28: for a fixed roster, test case and per-model responses or failures,
\* the MultiModelResult is the same for every order in which the queries
\* complete: it is the aggregation of the per-model results taken in roster
\* order; and the aggregation happens only when every task has completed,
\* from per-model results that it leaves as they are.
C28_CompletionOrderIrrelevant ==
    /\ [](EvalDone =>
            mm_result = AggregateResults(test_case,
                                         [i \in 1..Len(models) |-> TaskResult(i)], models))
    /\ [][(epc = "gather" /\ epc' = "done") =>
              /\ epending = {}
              /\ model_results' = model_results
              /\ gateway' = gateway]_vars

\* three models of which the last one, the only one to find anything, has
\* answered; its result is the third of the list
C28_Witness ==
    /\ EvalDone
    /\ Len(models) = 3
    /\ gateway[1] = Raised(<<"timeout">>)
    /\ gateway[2].kind = "returned" /\ gateway[2].review_text = <<>>
    /\ gateway[3].kind = "returned" /\ gateway[3].review_text = <<"A", "b">>
    /\ test_case.expected_issues = <<<<"a">>, <<"B">>>>
    /\ mm_result.model_results[3].passed
    /\ mm_result.any_model_issues = <<<<"a">>, <<"B">>>>

(***************************************************************************)
(* Properties of check_health (C30)                                        *)
(***************************************************************************)
HealthDone == hpc = "done"

\* some check of the report recorded an error
ErrorRecorded ==
    health.api_connectivity.errors /= <<>> \/ health.dependencies.errors /= <<>>

\* some check of the report recorded a warning
WarningRecorded ==
    health.api_connectivity.warnings /= <<>> \/ health.environment.warnings /= <<>>

\* C30: check_health reports 'unhealthy' when a check contributed an error,
\* 'degraded' when there is no error but some check recorded a warning (an
\* API key that is present while the API times out or answers with an error,
\* or an optional environment variable that is missing), and 'healthy' only
\* when there is neither an error nor a warning.
C30_StatusFollowsChecks ==
    HealthDone =>
        health.status = IF ErrorRecorded THEN "unhealthy"
                        ELSE IF WarningRecorded THEN "degraded"
                        ELSE "healthy"

====
